---- MODULE Spec2Model ----
(***************************************************************************)
(* A model of the pyGSTi gate-set calculus core:                           *)
(*   - packages/GST/BasisTools.py          (basis construction / change)   *)
(*   - packages/pygsti/objects/gateset.py  (GateSet parameter vectors)     *)
(*                                                                         *)
(* Numbers.  numpy computes with complex doubles.  The model computes      *)
(* exactly in the numbers  sqrt(s) * (re + i*im) / d  with s a squarefree  *)
(* positive integer, which is closed under every product, quotient and     *)
(* (same-radical) sum the modelled code performs on the bounded inputs.    *)
(* Floating-point rounding is therefore not modelled.                      *)
(***************************************************************************)
EXTENDS Integers, Sequences, FiniteSets, TLC

VARIABLES
    call,        \* the call of a module function: name, arguments, locals, outcome
    gs_dim,      \* GateSet._dim            (0 models None)
    basis,       \* GateSet._basisNameAndDim
    preps,       \* GateSet.preps    (ordered label -> SPAM vector)
    effects,     \* GateSet.effects  (ordered label -> SPAM vector)
    gates,       \* GateSet.gates    (ordered label -> gate)
    identityVec, \* GateSet._povm_identity
    defaultParam,\* default_param handed to GateSet.__init__
    ret          \* outcome of the last GateSet method call

gsVars == <<gs_dim, basis, preps, effects, gates, identityVec, defaultParam, ret>>
vars == <<call, gs_dim, basis, preps, effects, gates, identityVec, defaultParam, ret>>

\* A density-space structure argument (dimOrBlockDims) of packages/GST/BasisTools.py:
\* a python int, a list of ints, None, or a value of another type.
IntDim(d) == [kind |-> "int", d |-> d, dims |-> <<>>]
ListDims(l) == [kind |-> "list", d |-> 0, dims |-> l]
NoneDims == [kind |-> "None", d |-> 0, dims |-> <<>>]
OtherDims == [kind |-> "other", d |-> 0, dims |-> <<>>]

\* what ret holds: the method called, its arguments and its outcome
Outcome(fn, arg, out) == [fn |-> fn, arg |-> arg, out |-> out]

-----------------------------------------------------------------------------
(* Bounds of the model *)

\* largest density-matrix dimension (sum of block dimensions) of a structure
MaxDmDim == 4
\* largest dimension handed to GetPauliProdMatrices
MaxPauliDim == 8
\* largest density-matrix dimension of a structure handed to a basisChg function
MaxChgDmDim == 2
\* rows and columns 0..MaxIndex-1 hold the non-zero entries of a basisChg input
MaxIndex == 3
\* largest dimension of a GateSet
MaxGsDim == 2
\* gate labels are numbered 0..MaxLabel-1
MaxLabel == 2
\* largest number of preps, effects and gates a GateSet holds together
MaxOps == 3

-----------------------------------------------------------------------------
(* Evaluation order *)

\* F applied to the value of v: python evaluates an expression once and binds
\* the result, where a definition is a formula that is evaluated at every use
With(v, F(_)) == CHOOSE r \in {F(x) : x \in {v}} : TRUE
With2(u, v, F(_, _)) == CHOOSE r \in {F(x, y) : x \in {u}, y \in {v}} : TRUE

\* the function f with all its values computed
Force(f) == IF f = f THEN f ELSE f

-----------------------------------------------------------------------------
(* Exact arithmetic *)

Abs(x) == IF x < 0 THEN 0 - x ELSE x

RECURSIVE GCD(_, _)
GCD(a, b) == IF b = 0 THEN a ELSE GCD(b, a % b)

\* the number sqrt(s) * (re + i*im) / d, in lowest terms
Num(s, re, im, d) ==
    IF re = 0 /\ im = 0 THEN [s |-> 1, re |-> 0, im |-> 0, d |-> 1]
    ELSE With(GCD(GCD(Abs(re), Abs(im)), d), LAMBDA g :
             [s |-> s, re |-> re \div g, im |-> im \div g, d |-> d \div g])

Zero == Num(1, 0, 0, 1)
One == Num(1, 1, 0, 1)
IntNum(n) == Num(1, n, 0, 1)
\* the complex number re + i*im
Cplx(re, im) == Num(1, re, im, 1)

IsZero(a) == a.re = 0 /\ a.im = 0

\* a sum of two different radicals is outside the number system: s = 0 marks it
Incommensurable == [s |-> 0, re |-> 1, im |-> 0, d |-> 1]

Add(x, y) ==
    With2(x, y, LAMBDA a, b :
        IF IsZero(a) THEN b
        ELSE IF IsZero(b) THEN a
        ELSE IF a.s # b.s \/ a.s = 0 THEN Incommensurable
        ELSE With(GCD(a.d, b.d), LAMBDA g :
                 Num(a.s, a.re * (b.d \div g) + b.re * (a.d \div g),
                     a.im * (b.d \div g) + b.im * (a.d \div g), (a.d \div g) * b.d)))

Neg(x) == With(x, LAMBDA a : Num(a.s, 0 - a.re, 0 - a.im, a.d))
Sub(a, b) == Add(a, Neg(b))

\* the product, with the common factors of numerators and denominators
\* cancelled before multiplying
Mul(x, y) ==
    With2(x, y, LAMBDA a, b :
        IF IsZero(a) \/ IsZero(b) THEN [s |-> 1, re |-> 0, im |-> 0, d |-> 1]
        ELSE With2(GCD(GCD(Abs(a.re), Abs(a.im)), b.d), GCD(GCD(Abs(b.re), Abs(b.im)), a.d),
                   LAMBDA ga, gb :
                 With(GCD(a.s, b.s), LAMBDA g :
                     Num((a.s * b.s) \div (g * g),
                         g * ((a.re \div ga) * (b.re \div gb) - (a.im \div ga) * (b.im \div gb)),
                         g * ((a.re \div ga) * (b.im \div gb) + (a.im \div ga) * (b.re \div gb)),
                         (a.d \div gb) * (b.d \div ga)))))

\* 1 / a, for a # 0
Recip(x) ==
    With(x, LAMBDA a :
        IF a.im = 0
        THEN Num(a.s, IF a.re < 0 THEN 0 - a.d ELSE a.d, 0, a.s * Abs(a.re))
        ELSE Num(a.s, a.re * a.d, 0 - (a.im * a.d), a.s * (a.re * a.re + a.im * a.im)))
Div(a, b) == Mul(a, Recip(b))

Real(x) == With(x, LAMBDA a : Num(a.s, a.re, 0, a.d))
Imag(x) == With(x, LAMBDA a : Num(a.s, a.im, 0, a.d))
Conj(x) == With(x, LAMBDA a : Num(a.s, a.re, 0 - a.im, a.d))

\* the largest k with k*k dividing n
SquarePart(n) == CHOOSE k \in 1..n : n % (k * k) = 0 /\ \A j \in (k + 1)..n : n % (j * j) # 0

\* sqrt(p / q) for positive integers p, q
SqrtRat(p, q) == With(SquarePart(p * q), LAMBDA k : Num((p * q) \div (k * k), k, 0, q))

RECURSIVE SumSeq(_)
SumSeq(t) == With(t, LAMBDA s : IF s = <<>> THEN Zero ELSE Add(Head(s), SumSeq(Tail(s))))

\* sum of F(k) for k in 0..n-1
Sum(n, F(_)) == SumSeq(Force([k \in 1..n |-> F(k - 1)]))

RECURSIVE SumInts(_)
SumInts(t) == With(t, LAMBDA s : IF s = <<>> THEN 0 ELSE Head(s) + SumInts(Tail(s)))

-----------------------------------------------------------------------------
(* numpy arrays: nd = 1 is a vector of shape (r,), nd = 2 a matrix (r, c) *)

Mx(r, c, F(_, _)) ==
    [nd |-> 2, r |-> r, c |-> c,
     a |-> Force([i \in 0..(r - 1) |-> [j \in 0..(c - 1) |-> F(i, j)]])]

Vec1(n, F(_)) ==
    [nd |-> 1, r |-> n, c |-> 1,
     a |-> Force([i \in 0..(n - 1) |-> [j \in 0..0 |-> F(i)]])]

\* an array of the shape of B holding F
Like(B, F(_, _)) ==
    [nd |-> B.nd, r |-> B.r, c |-> B.c,
     a |-> Force([i \in 0..(B.r - 1) |-> [j \in 0..(B.c - 1) |-> F(i, j)]])]

IdentityMx(n) == Mx(n, n, LAMBDA i, j : IF i = j THEN One ELSE Zero)
ZerosMx(r, c) == Mx(r, c, LAMBDA i, j : Zero)

\* numpy.dot of a matrix with a matrix or a vector
Dot(X, Y) ==
    With2(X, Y, LAMBDA A, B :
        [nd |-> B.nd, r |-> A.r, c |-> B.c,
         a |-> Force([i \in 0..(A.r - 1) |-> [j \in 0..(B.c - 1) |->
                   Sum(A.c, LAMBDA k : Mul(A.a[i][k], B.a[k][j]))]])])

Scale(X, y) == With2(X, y, LAMBDA A, x : Like(A, LAMBDA i, j : Mul(A.a[i][j], x)))
RealPart(X) == With(X, LAMBDA A : Like(A, LAMBDA i, j : Real(A.a[i][j])))
Trace(X) == With(X, LAMBDA A : Sum(A.r, LAMBDA k : A.a[k][k]))

\* mx.flatten(): row-major
Flatten(X) ==
    With(X, LAMBDA A : Force([k \in 0..(A.r * A.c - 1) |-> A.a[k \div A.c][k % A.c]]))

\* numpy.kron
Kron(X, Y) ==
    With2(X, Y, LAMBDA A, B :
        Mx(A.r * B.r, A.c * B.c,
           LAMBDA i, j : Mul(A.a[i \div B.r][j \div B.c], B.a[i % B.r][j % B.c])))

\* numpy.linalg.norm(numpy.imag(A)) squared: the sum of the squared imaginary parts
ImagNormSq(X) ==
    With(X, LAMBDA A :
        Sum(A.r, LAMBDA i : Sum(A.c, LAMBDA j : Mul(Imag(A.a[i][j]), Imag(A.a[i][j])))))

\* one step of Gauss-Jordan elimination of the n x 2n matrix aug: row r, the
\* first at or below p with a non-zero entry in column p, becomes the pivot row p
Eliminate(aug, n, p, r) ==
    With(Force([j \in 0..(2 * n - 1) |-> Div(aug[r][j], aug[r][p])]), LAMBDA pivRow :
        Force([i \in 0..(n - 1) |->
            IF i = p THEN pivRow
            ELSE With(IF i = r THEN aug[p] ELSE aug[i], LAMBDA row :
                     [j \in 0..(2 * n - 1) |-> Sub(row[j], Mul(row[p], pivRow[j]))])]))

\* Gauss-Jordan elimination of the n x 2n matrix aug0 from pivot column p on
RECURSIVE GaussJordan(_, _, _)
GaussJordan(aug0, n, p) ==
    With(aug0, LAMBDA aug :
        IF p = n THEN [ok |-> TRUE, a |-> aug]
        ELSE With({i \in p..(n - 1) : ~IsZero(aug[i][p])}, LAMBDA cand :
                 IF cand = {} THEN [ok |-> FALSE, a |-> aug]
                 ELSE GaussJordan(
                          Eliminate(aug, n, p, CHOOSE i \in cand : \A k \in cand : i <= k),
                          n, p + 1)))

\* numpy.linalg.inv: the inverse of a square matrix, ok = FALSE for a singular one
Inv(X) ==
    With(X, LAMBDA A :
        With(GaussJordan(Force([i \in 0..(A.r - 1) |-> [j \in 0..(2 * A.r - 1) |->
                             IF j < A.r THEN A.a[i][j]
                             ELSE IF j - A.r = i THEN One ELSE Zero]]), A.r, 0),
             LAMBDA gj : [ok |-> gj.ok,
                          val |-> Mx(A.r, A.r, LAMBDA i, j : gj.a[i][j + A.r])]))

Transpose(X) == With(X, LAMBDA A : Mx(A.c, A.r, LAMBDA i, j : A.a[j][i]))

\* one step of the reduction of the nr x nc rows a to reduced row echelon
\* form: row r, with a non-zero entry in column c, becomes pivot row p
ReduceColumn(a, nr, nc, p, c, r) ==
    With(Force([j \in 0..(nc - 1) |-> Div(a[r][j], a[r][c])]), LAMBDA pivRow :
        Force([i \in 0..(nr - 1) |->
            IF i = p THEN pivRow
            ELSE With(IF i = r THEN a[p] ELSE a[i], LAMBDA row :
                     IF IsZero(row[c]) THEN row
                     ELSE [j \in 0..(nc - 1) |-> Sub(row[j], Mul(row[c], pivRow[j]))])]))

\* reduced row echelon form of the rows a0 from pivot row p and column c on;
\* pivots0 lists the pivot columns found so far
RECURSIVE RowReduce(_, _, _, _, _, _)
RowReduce(a0, nr, nc, p, c, pivots0) ==
    With2(a0, pivots0, LAMBDA a, pivots :
        IF p = nr \/ c = nc THEN [a |-> a, pivots |-> pivots]
        ELSE With({i \in p..(nr - 1) : ~IsZero(a[i][c])}, LAMBDA cand :
                 IF cand = {} THEN RowReduce(a, nr, nc, p, c + 1, pivots)
                 ELSE RowReduce(
                          ReduceColumn(a, nr, nc, p, c, CHOOSE i \in cand : \A k \in cand : i <= k),
                          nr, nc, p + 1, c + 1, Append(pivots, c))))

\* the reduced row echelon form of a matrix and its pivot columns
Rref(X) == With(X, LAMBDA A : RowReduce(A.a, A.r, A.c, 0, 0, <<>>))

\* numpy.linalg.matrix_rank(X, tol): the number of singular values above tol,
\* which is the rank of X when X has no non-zero singular value below tol
MatrixRank(X) == Len(Rref(X).pivots)

\* the columns of X that are no pivot columns of its echelon form, in order
RECURSIVE FreeColumns(_, _, _)
FreeColumns(pivots, c, nc) ==
    IF c = nc THEN <<>>
    ELSE IF \E k \in 1..Len(pivots) : pivots[k] = c THEN FreeColumns(pivots, c + 1, nc)
    ELSE <<c>> \o FreeColumns(pivots, c + 1, nc)

\* a matrix whose columns are a basis of the null space of X: one column per
\* free column f of the echelon form, 1 at f and minus the echelon entry of
\* column f at every pivot column
NullspaceBasis(X) ==
    With2(X, Rref(X), LAMBDA A, rr :
        With(FreeColumns(rr.pivots, 0, A.c), LAMBDA free :
            Mx(A.c, Len(free), LAMBDA i, j :
                IF i = free[j + 1] THEN One
                ELSE IF \E k \in 1..Len(rr.pivots) : rr.pivots[k] = i
                THEN Neg(rr.a[(CHOOSE k \in 1..Len(rr.pivots) : rr.pivots[k] = i) - 1][free[j + 1]])
                ELSE Zero)))

\* the columns of X at the pivot columns of its echelon form: a basis of the
\* column space of X
ColumnBasis(X) ==
    With2(X, Rref(X).pivots, LAMBDA A, pivots :
        Mx(A.r, Len(pivots), LAMBDA i, j : A.a[i][pivots[j + 1]]))

\* the orthogonal projector onto the column space of X: B (B^T B)^-1 B^T for
\* a basis B of the column space
RangeProjector(X) ==
    With(ColumnBasis(X), LAMBDA B :
        IF B.c = 0 THEN ZerosMx(B.r, B.r)
        ELSE Dot(B, Dot(Inv(Dot(Transpose(B), B)).val, Transpose(B))))

MxSub(X, Y) == With2(X, Y, LAMBDA A, B : Like(A, LAMBDA i, j : Sub(A.a[i][j], B.a[i][j])))

-----------------------------------------------------------------------------
(* Outcomes of a call: a returned value or a raised exception *)

Return(v) == [ok |-> TRUE, err |-> "", val |-> v]
Raise(e) == [ok |-> FALSE, err |-> e, val |-> <<>>]

-----------------------------------------------------------------------------
(* packages/GST/BasisTools.py *)

sqrt2 == SqrtRat(2, 1)

\* _mut(i, j, N)
mut(i, j, N) == Mx(N, N, LAMBDA a, b : IF a = i /\ b = j THEN One ELSE Zero)

\* _processBlockDims taking the gate dimension of a list to be the square of
\* the summed block dimensions
processBlockDims_SquareOfSum(dimOrBlockDims) ==
    IF dimOrBlockDims.kind = "list"
    THEN Return([dmDim |-> SumInts(dimOrBlockDims.dims),
                 gateDim |-> SumInts(dimOrBlockDims.dims) * SumInts(dimOrBlockDims.dims),
                 blockDims |-> dimOrBlockDims.dims])
    ELSE IF dimOrBlockDims.kind = "int"
    THEN Return([dmDim |-> dimOrBlockDims.d,
                 gateDim |-> dimOrBlockDims.d * dimOrBlockDims.d,
                 blockDims |-> <<dimOrBlockDims.d>>])
    ELSE Raise("ValueError")

\* _processBlockDims(dimOrBlockDims)
processBlockDims(dimOrBlockDims) ==
    IF dimOrBlockDims.kind = "list"
    THEN Return([dmDim |-> SumInts(dimOrBlockDims.dims),
                 gateDim |-> SumInts([k \in 1..Len(dimOrBlockDims.dims) |->
                                         dimOrBlockDims.dims[k] * dimOrBlockDims.dims[k]]),
                 blockDims |-> dimOrBlockDims.dims])
    ELSE IF dimOrBlockDims.kind = "int"
    THEN Return([dmDim |-> dimOrBlockDims.d,
                 gateDim |-> dimOrBlockDims.d * dimOrBlockDims.d,
                 blockDims |-> <<dimOrBlockDims.d>>])
    ELSE Raise("ValueError")

\* the loop over the blocks of GetMatrixUnitMatrices with "start += blockDim"
\* left out: every block is laid over the first
RECURSIVE MatrixUnitLoop_NoAdvance(_, _, _)
MatrixUnitLoop_NoAdvance(blockDims, start, dmDim) ==
    IF blockDims = <<>> THEN <<>>
    ELSE With(Head(blockDims), LAMBDA blockDim :
             [k \in 1..(blockDim * blockDim) |->
                 mut(start + ((k - 1) \div blockDim), start + ((k - 1) % blockDim), dmDim)]
             \o MatrixUnitLoop_NoAdvance(Tail(blockDims), start, dmDim))

\* the loop over the blocks of GetMatrixUnitMatrices, from block offset start
RECURSIVE MatrixUnitLoop(_, _, _)
MatrixUnitLoop(blockDims, start, dmDim) ==
    IF blockDims = <<>> THEN <<>>
    ELSE With(Head(blockDims), LAMBDA blockDim :
             [k \in 1..(blockDim * blockDim) |->
                 mut(start + ((k - 1) \div blockDim), start + ((k - 1) % blockDim), dmDim)]
             \o MatrixUnitLoop(Tail(blockDims), start + blockDim, dmDim))

GetMatrixUnitMatrices(dimOrBlockDims) ==
    With(processBlockDims(dimOrBlockDims), LAMBDA p :
        IF ~p.ok THEN p
        ELSE With(MatrixUnitLoop(p.val.blockDims, 0, p.val.dmDim), LAMBDA mxList :
                 IF Len(mxList) = p.val.gateDim THEN Return(mxList)
                 ELSE Raise("AssertionError")))

\* indxMap with the block positions taken column by column
RECURSIVE IndxMapLoop_ColumnMajor(_, _, _)
IndxMapLoop_ColumnMajor(blockDims, start, dmDim) ==
    IF blockDims = <<>> THEN <<>>
    ELSE With(Head(blockDims), LAMBDA blockDim :
             [k \in 1..(blockDim * blockDim) |->
                 dmDim * (start + ((k - 1) % blockDim)) + (start + ((k - 1) \div blockDim))]
             \o IndxMapLoop_ColumnMajor(Tail(blockDims), start + blockDim, dmDim))

\* indxMap of expandFromStdDirectSumMx / contractToStdDirectSumMx
RECURSIVE IndxMapLoop(_, _, _)
IndxMapLoop(blockDims, start, dmDim) ==
    IF blockDims = <<>> THEN <<>>
    ELSE With(Head(blockDims), LAMBDA blockDim :
             [k \in 1..(blockDim * blockDim) |->
                 dmDim * (start + ((k - 1) \div blockDim)) + (start + ((k - 1) % blockDim))]
             \o IndxMapLoop(Tail(blockDims), start + blockDim, dmDim))

\* the position (from 1) of x in the sequence s, 0 when absent
IndexOf(s, x) == IF \E k \in 1..Len(s) : s[k] = x
                 THEN CHOOSE k \in 1..Len(s) : s[k] = x ELSE 0

expandFromStdDirectSumMx(mxInStdBasis, dimOrBlockDims) ==
    IF dimOrBlockDims.kind = "None" THEN Return(mxInStdBasis)
    ELSE IF dimOrBlockDims.kind = "int"
    THEN IF mxInStdBasis.r = dimOrBlockDims.d /\ mxInStdBasis.c = dimOrBlockDims.d
         THEN Return(mxInStdBasis) ELSE Raise("AssertionError")
    ELSE With(processBlockDims(dimOrBlockDims), LAMBDA p :
        IF ~p.ok THEN p
        ELSE With(IndxMapLoop(p.val.blockDims, 0, p.val.dmDim), LAMBDA indxMap :
                 IF mxInStdBasis.r < Len(indxMap) \/ mxInStdBasis.c < Len(indxMap)
                 THEN Raise("IndexError")
                 ELSE Return(Mx(p.val.dmDim * p.val.dmDim, p.val.dmDim * p.val.dmDim,
                          LAMBDA fi, fj :
                              IF IndexOf(indxMap, fi) > 0 /\ IndexOf(indxMap, fj) > 0
                              THEN mxInStdBasis.a[IndexOf(indxMap, fi) - 1][IndexOf(indxMap, fj) - 1]
                              ELSE Zero))))

contractToStdDirectSumMx(mxInStdBasis, dimOrBlockDims) ==
    IF dimOrBlockDims.kind = "None" THEN Return(mxInStdBasis)
    ELSE IF dimOrBlockDims.kind = "int"
    THEN IF mxInStdBasis.r = dimOrBlockDims.d /\ mxInStdBasis.c = dimOrBlockDims.d
         THEN Return(mxInStdBasis) ELSE Raise("AssertionError")
    ELSE With(processBlockDims(dimOrBlockDims), LAMBDA p :
        IF ~p.ok THEN p
        ELSE With(IndxMapLoop(p.val.blockDims, 0, p.val.dmDim), LAMBDA indxMap :
                 IF \E k \in 1..Len(indxMap) :
                        indxMap[k] >= mxInStdBasis.r \/ indxMap[k] >= mxInStdBasis.c
                 THEN Raise("IndexError")
                 ELSE Return(Mx(p.val.gateDim, p.val.gateDim, LAMBDA i, j :
                          mxInStdBasis.a[indxMap[i + 1]][indxMap[j + 1]]))))

\* the pairs (k, j), k < j < d, in the order of the loops "for k ... for j in range(k+1,d)"
RECURSIVE UpperPairs(_, _, _)
UpperPairs(k, j, d) ==
    IF k >= d THEN <<>>
    ELSE IF j >= d THEN UpperPairs(k + 1, k + 2, d)
    ELSE <<[k |-> k, j |-> j]>> \o UpperPairs(k, j + 1, d)

\* _GetGellMannNonIdentityDiagMxs(dimension)
RECURSIVE GetGellMannNonIdentityDiagMxs(_)
GetGellMannNonIdentityDiagMxs(d) ==
    IF d <= 1 THEN <<>>
    ELSE With(GetGellMannNonIdentityDiagMxs(d - 1), LAMBDA dm1_listOfMxs :
             [n \in 1..Len(dm1_listOfMxs) |->
                 Mx(d, d, LAMBDA i, j : IF i < d - 1 /\ j < d - 1
                                        THEN dm1_listOfMxs[n].a[i][j] ELSE Zero)]
             \o <<Scale(Mx(d, d, LAMBDA i, j : IF i # j THEN Zero
                                               ELSE IF i = d - 1 THEN IntNum(1 - d) ELSE One),
                        SqrtRat(2, d * (d - 1)))>>)

\* the loop over the blocks of GetGellMannMatrices (list case); perBlock[b] is
\* the list returned for block b
RECURSIVE EmbedBlocks(_, _, _, _, _)
EmbedBlocks(blockDims, perBlock, b, start, dmDim) ==
    IF b > Len(blockDims) THEN <<>>
    ELSE [n \in 1..Len(perBlock[b]) |->
             Mx(dmDim, dmDim, LAMBDA i, j :
                 IF i >= start /\ i < start + blockDims[b] /\ j >= start /\ j < start + blockDims[b]
                 THEN perBlock[b][n].a[i - start][j - start] ELSE Zero)]
         \o EmbedBlocks(blockDims, perBlock, b + 1, start + blockDims[b], dmDim)

\* GetGellMannMatrices for an int: identity, symmetric, antisymmetric, diagonal
GellMannOfDim(d) ==
    With(UpperPairs(0, 1, d), LAMBDA pairs :
        <<IdentityMx(d)>>
        \o [n \in 1..Len(pairs) |->
               Mx(d, d, LAMBDA i, j :
                   IF (i = pairs[n].k /\ j = pairs[n].j) \/ (i = pairs[n].j /\ j = pairs[n].k)
                   THEN One ELSE Zero)]
        \o [n \in 1..Len(pairs) |->
               Mx(d, d, LAMBDA i, j :
                   IF i = pairs[n].k /\ j = pairs[n].j THEN Cplx(0, 0 - 1)
                   ELSE IF i = pairs[n].j /\ j = pairs[n].k THEN Cplx(0, 1)
                   ELSE Zero)]
        \o GetGellMannNonIdentityDiagMxs(d))

GetGellMannMatrices(dimOrBlockDims) ==
    IF dimOrBlockDims.kind = "int"
    THEN With(GellMannOfDim(dimOrBlockDims.d), LAMBDA listOfMxs :
             IF Len(listOfMxs) = dimOrBlockDims.d * dimOrBlockDims.d
             THEN Return(listOfMxs) ELSE Raise("AssertionError"))
    ELSE IF dimOrBlockDims.kind = "list"
    THEN With(processBlockDims(dimOrBlockDims).val, LAMBDA p :
             With(EmbedBlocks(p.blockDims,
                              Force([b \in 1..Len(p.blockDims) |-> GellMannOfDim(p.blockDims[b])]),
                              1, 0, p.dmDim),
                  LAMBDA listOfMxs :
                      IF Len(listOfMxs) = p.gateDim
                      THEN Return(listOfMxs) ELSE Raise("AssertionError")))
    ELSE Raise("ValueError")

GetNormalizedGellMannMatrices(dimOrBlockDims) ==
    With(GetGellMannMatrices(dimOrBlockDims), LAMBDA g :
        IF ~g.ok THEN g
        ELSE Return([n \in 1..Len(g.val) |->
                 IF n = 1 THEN Scale(g.val[1], Recip(SqrtRat(g.val[1].r, 1)))
                 ELSE Scale(g.val[n], Recip(sqrt2))]))

\* The block-diagonal matrix both ...ToStdBasisTransformMatrix functions fill:
\* column start+j of block b is the flattening of perBlock[b][j+1], where
\* start is the sum of the squares of the earlier block dimensions.
BlockStart(blockDims, b) == SumInts([k \in 1..(b - 1) |-> blockDims[k] * blockDims[k]])

\* the block holding both row i and column j, 0 when there is none
BlockOf(blockDims, i, j) ==
    With({b \in 1..Len(blockDims) :
             /\ i >= BlockStart(blockDims, b) /\ j >= BlockStart(blockDims, b)
             /\ i < BlockStart(blockDims, b) + blockDims[b] * blockDims[b]
             /\ j < BlockStart(blockDims, b) + blockDims[b] * blockDims[b]},
         LAMBDA bs : IF bs = {} THEN 0 ELSE CHOOSE b \in bs : TRUE)

\* the fill loop writing the flattened basis matrices along the rows instead
\* of the columns
FillTransformMx_AlongRows(gateDim, blockDims, perBlock) ==
    With(Force([b \in 1..Len(blockDims) |->
                   [n \in 1..Len(perBlock[b]) |-> Flatten(perBlock[b][n])]]),
         LAMBDA flat :
             Mx(gateDim, gateDim, LAMBDA i, j :
                 With(BlockOf(blockDims, i, j), LAMBDA b :
                     IF b = 0 THEN Zero
                     ELSE flat[b][i - BlockStart(blockDims, b) + 1]
                                 [j - BlockStart(blockDims, b)])))

\* gmToStd[start:start+blockDim**2, start+j] = mx.flatten() for every block
FillTransformMx(gateDim, blockDims, perBlock) ==
    With(Force([b \in 1..Len(blockDims) |->
                   [n \in 1..Len(perBlock[b]) |-> Flatten(perBlock[b][n])]]),
         LAMBDA flat :
             Mx(gateDim, gateDim, LAMBDA i, j :
                 With(BlockOf(blockDims, i, j), LAMBDA b :
                     IF b = 0 THEN Zero
                     ELSE flat[b][j - BlockStart(blockDims, b) + 1]
                                 [i - BlockStart(blockDims, b)])))

\* the first failed outcome of the list outs, in order
FirstFailure(outs) == outs[CHOOSE b \in 1..Len(outs) : ~outs[b].ok /\ \A c \in 1..(b - 1) : outs[c].ok]

\* the body shared by the two ...ToStdBasisTransformMatrix functions: mxs[b]
\* is the outcome of building the basis matrices of block b
TransformMatrixOf(p, mxs) ==
    IF \E b \in 1..Len(mxs) : ~mxs[b].ok THEN FirstFailure(mxs)
    ELSE IF \E b \in 1..Len(mxs) : Len(mxs[b].val) # p.blockDims[b] * p.blockDims[b]
    THEN Raise("AssertionError")
    ELSE Return(FillTransformMx(p.gateDim, p.blockDims, [b \in 1..Len(mxs) |-> mxs[b].val]))

GetGellMannToStdBasisTransformMatrix(dimOrBlockDims) ==
    With(processBlockDims(dimOrBlockDims), LAMBDA p :
        IF ~p.ok THEN p
        ELSE With(Force([b \in 1..Len(p.val.blockDims) |->
                            GetNormalizedGellMannMatrices(IntDim(p.val.blockDims[b]))]),
                  LAMBDA mxs : TransformMatrixOf(p.val, mxs)))

\* Pauli basis matrices
id2x2 == Mx(2, 2, LAMBDA i, j : IF i = j THEN One ELSE Zero)
sigmax == Mx(2, 2, LAMBDA i, j : IF i # j THEN One ELSE Zero)
sigmay == Mx(2, 2, LAMBDA i, j : IF i = j THEN Zero ELSE IF i = 0 THEN Cplx(0, 0 - 1) ELSE Cplx(0, 1))
sigmaz == Mx(2, 2, LAMBDA i, j : IF i # j THEN Zero ELSE IF i = 0 THEN One ELSE IntNum(0 - 1))

\* a python number handed as "dim": an int, or a float of the same value
PyInt(n) == [type |-> "int", val |-> n]
PyFloat(n) == [type |-> "float", val |-> n]

RECURSIVE FloorLog2(_)
FloorLog2(n) == IF n <= 1 THEN 0 ELSE 1 + FloorLog2(n \div 2)

\* the power-of-two test of GetPauliProdMatrices accepting every positive dim
isIntegerLog2_AnyPositive(dim) == dim > 0

\* the power-of-two test of GetPauliProdMatrices rejecting dim = 1 = 2^0
isIntegerLog2_NoUnit(dim) == dim > 1 /\ 2 ^ FloorLog2(dim) = dim

\* isInteger(numpy.log2(dim)): log2 is -inf at 0 and nan below 0, neither of
\* which is within 1e-6 of its rounding; for 0 < dim < 2^20 the logarithm is
\* within 1e-6 of an integer exactly when dim is a power of two
isIntegerLog2(dim) == dim > 0 /\ 2 ^ FloorLog2(dim) = dim

\* M = kron(...kron(kron(M, sigmaVec[i1]), sigmaVec[i2])..., sigmaVec[in])
RECURSIVE KronLoop(_, _, _)
KronLoop(M, sigmaVec, sigmaInds) ==
    IF sigmaInds = <<>> THEN M
    ELSE KronLoop(Kron(M, sigmaVec[Head(sigmaInds) + 1]), sigmaVec, Tail(sigmaInds))

\* the factor indices taken with the first qubit least significant
ProductElement_LeastFirst(k, nQubits) == [q \in 1..nQubits |-> (k \div (4 ^ (q - 1))) % 4]

\* the k-th element (from 0) of itertools.product([0,1,2,3], repeat = nQubits)
ProductElement(k, nQubits) == [q \in 1..nQubits |-> (k \div (4 ^ (nQubits - q))) % 4]

\* the list of the four normalized 2x2 Pauli matrices
sigmaVec ==
    <<Scale(id2x2, Recip(sqrt2)), Scale(sigmax, Recip(sqrt2)),
      Scale(sigmay, Recip(sqrt2)), Scale(sigmaz, Recip(sqrt2))>>

GetPauliProdMatrices(dim) ==
    IF dim.type # "int" THEN Raise("ValueError")
    ELSE IF ~isIntegerLog2(dim.val) THEN Raise("ValueError")
    ELSE IF FloorLog2(dim.val) = 0 THEN Return(<<IdentityMx(1)>>)
    ELSE With(FloorLog2(dim.val), LAMBDA nQubits :
             Return([k \in 1..(4 ^ nQubits) |->
                        KronLoop(IdentityMx(1), sigmaVec, ProductElement(k - 1, nQubits))]))

GetPauliProdToStdBasisTransformMatrix(dimOrBlockDims) ==
    With(processBlockDims(dimOrBlockDims), LAMBDA p :
        IF ~p.ok THEN p
        ELSE With(Force([b \in 1..Len(p.val.blockDims) |->
                            GetPauliProdMatrices(PyInt(p.val.blockDims[b]))]),
                  LAMBDA mxs : TransformMatrixOf(p.val, mxs)))

\* int(round(numpy.sqrt(n))) for n >= 1
RoundSqrt(n) == CHOOSE k \in 0..n : (2 * k - 1) * (2 * k - 1) <= 4 * n /\ 4 * n < (2 * k + 1) * (2 * k + 1)

\* the number of decimal digits of the tolerance 1e-8 of the imaginary-part checks
ImagTolDigits == 8

\* numpy.linalg.norm(numpy.imag(x)) > 1e-8, from the squared norm n.re / n.d:
\* n.re / n.d > 1e-16, i.e. n.re > floor(n.d / 10^16)
ExceedsImagTol(n) == n.re > (n.d \div (10 ^ ImagTolDigits)) \div (10 ^ ImagTolDigits)

\* dimOrBlockDims as the basisChg functions use it: None stands for the single
\* block of dimension sqrt(shape[0])
DefaultDims(mx, dimOrBlockDims) ==
    IF dimOrBlockDims.kind = "None" THEN IntDim(RoundSqrt(mx.r)) ELSE dimOrBlockDims

IsSquareMx(mx) == mx.nd = 2 /\ mx.r = mx.c
IsVector(mx) == mx.nd = 1 \/ (mx.nd = 2 /\ mx.c = 1)

\* the imaginary-part check left out: the real part is returned whatever the
\* imaginary part is
RealOrError_NoCheck(x) == Return(RealPart(x))

\* the outcome of the imaginary-part check on the converted array x
RealOrError(x) ==
    IF ExceedsImagTol(ImagNormSq(x)) THEN Raise("ValueError") ELSE Return(RealPart(x))

\* the body shared by basisChg_StdToGellMann and basisChg_StdToPauliProd once
\* the transform matrix toStd is built
ChgFromStd(mxInStdBasis, toStd) ==
    With(Inv(toStd).val, LAMBDA fromStd :
        IF toStd.r # mxInStdBasis.r THEN Raise("ValueError")
        ELSE IF IsSquareMx(mxInStdBasis)
        THEN With(Dot(fromStd, Dot(mxInStdBasis, toStd)), LAMBDA x : RealOrError(x))
        ELSE IF IsVector(mxInStdBasis)
        THEN With(Dot(fromStd, mxInStdBasis), LAMBDA x : RealOrError(x))
        ELSE Raise("ValueError"))

\* the conversion to the Standard basis with the two transform matrices
\* exchanged
ChgToStd_Exchanged(mx, toStd) ==
    With(Inv(toStd).val, LAMBDA fromStd :
        IF toStd.r # mx.r THEN Raise("ValueError")
        ELSE IF IsSquareMx(mx) THEN Return(Dot(fromStd, Dot(mx, toStd)))
        ELSE IF IsVector(mx) THEN Return(Dot(fromStd, mx))
        ELSE Raise("ValueError"))

\* the body shared by basisChg_GellMannToStd and basisChg_PauliProdToStd
ChgToStd(mx, toStd) ==
    With(Inv(toStd).val, LAMBDA fromStd :
        IF toStd.r # mx.r THEN Raise("ValueError")
        ELSE IF IsSquareMx(mx) THEN Return(Dot(toStd, Dot(mx, fromStd)))
        ELSE IF IsVector(mx) THEN Return(Dot(toStd, mx))
        ELSE Raise("ValueError"))

\* a basisChg function: build the transform matrix of the structure with
\* Transform, then convert with Chg
BasisChg(mx, dimOrBlockDims, Transform(_), Chg(_, _)) ==
    With(DefaultDims(mx, dimOrBlockDims), LAMBDA dims :
        IF dimOrBlockDims.kind = "None" /\ dims.d * dims.d # mx.r
        THEN Raise("AssertionError")
        ELSE With(Transform(dims), LAMBDA toStd :
                 IF ~toStd.ok THEN toStd ELSE Chg(mx, toStd.val)))

basisChg_StdToGellMann(mxInStdBasis, dimOrBlockDims) ==
    BasisChg(mxInStdBasis, dimOrBlockDims, GetGellMannToStdBasisTransformMatrix, ChgFromStd)

basisChg_GellMannToStd(mxInGellMannBasis, dimOrBlockDims) ==
    BasisChg(mxInGellMannBasis, dimOrBlockDims, GetGellMannToStdBasisTransformMatrix, ChgToStd)

basisChg_StdToPauliProd(mxInStdBasis, dimOrBlockDims) ==
    BasisChg(mxInStdBasis, dimOrBlockDims, GetPauliProdToStdBasisTransformMatrix, ChgFromStd)

basisChg_PauliProdToStd(mxInPauliProdBasis, dimOrBlockDims) ==
    BasisChg(mxInPauliProdBasis, dimOrBlockDims, GetPauliProdToStdBasisTransformMatrix, ChgToStd)

-----------------------------------------------------------------------------
(* Arguments of the BasisTools calls *)

\* the non-empty lists of block dimensions >= 1 with sum <= n, and the empty list
RECURSIVE BlockLists(_)
BlockLists(n) ==
    {<<>>} \cup UNION {{<<d>> \o rest : rest \in BlockLists(n - d)} : d \in 1..n}

StructuresUpTo(n) ==
    {IntDim(d) : d \in 1..n} \cup {ListDims(l) : l \in BlockLists(n) \ {<<>>}}

Structures == StructuresUpTo(MaxDmDim) \cup {NoneDims, OtherDims}
ChgStructures == StructuresUpTo(MaxChgDmDim) \cup {NoneDims}

DmDimOf(s) == processBlockDims(s).val.dmDim
GateDimOf(s) == processBlockDims(s).val.gateDim
BlockDimsOf(s) == processBlockDims(s).val.blockDims

\* the n x n matrix with entries 1, 2, 3, ... in row-major order
RampMx(n) == Mx(n, n, LAMBDA i, j : IntNum(i * n + j + 1))

\* sizes of the matrices handed to expand / contract for structure s
DirectSumSizes(s) ==
    IF s.kind \in {"int", "list"}
    THEN {DmDimOf(s), GateDimOf(s), DmDimOf(s) * DmDimOf(s)}
    ELSE {1, 2}

ChgValues == {Cplx(1, 0), Cplx(0, 1)}

\* v at (p, q), zero elsewhere
SingleMx(n, p, q, v) == Mx(n, n, LAMBDA i, j : IF i = p /\ j = q THEN v ELSE Zero)
\* v at (p, q) plus conj(v) at (q, p): a Hermitian matrix
HermMx(n, p, q, v) ==
    Mx(n, n, LAMBDA i, j : Add(IF i = p /\ j = q THEN v ELSE Zero,
                               IF i = q /\ j = p THEN Conj(v) ELSE Zero))
\* v at p plus conj(v) at q, as a column (nd = 2) or a 1-d array (nd = 1)
PairVec(n, p, q, v, nd) ==
    [nd |-> nd, r |-> n, c |-> 1,
     a |-> [i \in 0..(n - 1) |-> [j \in 0..0 |->
               Add(IF i = p THEN v ELSE Zero, IF i = q THEN Conj(v) ELSE Zero)]]]

ChgInputs(n) ==
    LET idx == 0..((IF n < MaxIndex THEN n ELSE MaxIndex) - 1)
    IN  {SingleMx(n, p, q, v) : p \in idx, q \in idx, v \in ChgValues}
        \cup {HermMx(n, p, q, v) : p \in idx, q \in idx, v \in ChgValues}
        \cup {PairVec(n, p, q, v, nd) : p \in idx, q \in idx, v \in ChgValues, nd \in {1, 2}}

\* matrix sizes handed to a basisChg function for structure s
ChgSizes(s) == IF s.kind = "None" THEN {1, 2, 4} ELSE {GateDimOf(s)}

\* a drawn argument list on which no function has been called yet
Args(kind, dims, arg) ==
    [fn |-> "none", kind |-> kind, dims |-> dims, arg |-> arg, orig |-> arg,
     out |-> Return(<<>>)]

\* the call of fn on the drawn arguments c, with its outcome
Called(c, fn, out) == [c EXCEPT !.fn = fn, !.out = out]

\* fn called on the value the call c returned
CalledOnResult(c, fn, out) == [c EXCEPT !.fn = fn, !.arg = c.out.val, !.out = out]

StructureArgs == {Args("structure", s, <<>>) : s \in Structures}
NumberArgs ==
    {Args("number", x, <<>>) :
        x \in {PyInt(n) : n \in (0 - 2)..MaxPauliDim} \cup {PyFloat(n) : n \in 1..MaxPauliDim}}
DirectSumArgs ==
    UNION {{Args("directsum", s, RampMx(n)) : n \in DirectSumSizes(s)} : s \in Structures}
ChgArgs ==
    UNION {UNION {{Args("chg", s, m) : m \in ChgInputs(n)} : n \in ChgSizes(s)} :
              s \in ChgStructures}

-----------------------------------------------------------------------------
(* The BasisTools calls as actions: each records the call and its outcome *)

Fresh(kind) == call.fn = "none" /\ call.kind = kind

CallProcessBlockDims ==
    /\ Fresh("structure")
    /\ call' = Called(call, "_processBlockDims", processBlockDims(call.dims))

CallGetMatrixUnitMatrices ==
    /\ Fresh("structure")
    /\ call' = Called(call, "GetMatrixUnitMatrices", GetMatrixUnitMatrices(call.dims))

CallExpandFromStdDirectSumMx ==
    /\ Fresh("directsum")
    /\ call' = Called(call, "expandFromStdDirectSumMx",
                      expandFromStdDirectSumMx(call.arg, call.dims))

CallContractToStdDirectSumMx ==
    /\ Fresh("directsum")
    /\ call' = Called(call, "contractToStdDirectSumMx",
                      contractToStdDirectSumMx(call.arg, call.dims))

\* contractToStdDirectSumMx applied to what expandFromStdDirectSumMx returned
CallContractOfExpanded ==
    /\ call.fn = "expandFromStdDirectSumMx" /\ call.out.ok
    /\ call' = CalledOnResult(call, "contractOfExpanded",
                              contractToStdDirectSumMx(call.out.val, call.dims))

CallGetGellMannMatrices ==
    /\ Fresh("structure")
    /\ call' = Called(call, "GetGellMannMatrices", GetGellMannMatrices(call.dims))

CallGetNormalizedGellMannMatrices ==
    /\ Fresh("structure")
    /\ call' = Called(call, "GetNormalizedGellMannMatrices",
                      GetNormalizedGellMannMatrices(call.dims))

CallGetGellMannToStdBasisTransformMatrix ==
    /\ Fresh("structure")
    /\ call' = Called(call, "GetGellMannToStdBasisTransformMatrix",
                      GetGellMannToStdBasisTransformMatrix(call.dims))

CallGetPauliProdMatrices ==
    /\ Fresh("number")
    /\ call' = Called(call, "GetPauliProdMatrices", GetPauliProdMatrices(call.dims))

CallGetPauliProdToStdBasisTransformMatrix ==
    /\ Fresh("structure")
    /\ call' = Called(call, "GetPauliProdToStdBasisTransformMatrix",
                      GetPauliProdToStdBasisTransformMatrix(call.dims))

CallBasisChg_StdToGellMann ==
    /\ Fresh("chg")
    /\ call' = Called(call, "basisChg_StdToGellMann",
                      basisChg_StdToGellMann(call.arg, call.dims))

CallBasisChg_StdToPauliProd ==
    /\ Fresh("chg")
    /\ call' = Called(call, "basisChg_StdToPauliProd",
                      basisChg_StdToPauliProd(call.arg, call.dims))

\* basisChg_GellMannToStd applied to what basisChg_StdToGellMann returned
CallBasisChg_GellMannToStd ==
    /\ call.fn = "basisChg_StdToGellMann" /\ call.out.ok
    /\ call' = CalledOnResult(call, "basisChg_GellMannToStd",
                              basisChg_GellMannToStd(call.out.val, call.dims))

\* basisChg_PauliProdToStd applied to what basisChg_StdToPauliProd returned
CallBasisChg_PauliProdToStd ==
    /\ call.fn = "basisChg_StdToPauliProd" /\ call.out.ok
    /\ call' = CalledOnResult(call, "basisChg_PauliProdToStd",
                              basisChg_PauliProdToStd(call.out.val, call.dims))

InitBasis ==
    /\ call \in StructureArgs \cup NumberArgs \cup DirectSumArgs \cup ChgArgs
    /\ gs_dim = 0 /\ basis = 0 /\ preps = 0 /\ effects = 0 /\ gates = 0
    /\ identityVec = 0 /\ defaultParam = 0 /\ ret = 0

NextBasis ==
    /\ UNCHANGED gsVars
    /\ \/ CallProcessBlockDims
       \/ CallGetMatrixUnitMatrices
       \/ CallExpandFromStdDirectSumMx
       \/ CallContractToStdDirectSumMx
       \/ CallContractOfExpanded
       \/ CallGetGellMannMatrices
       \/ CallGetNormalizedGellMannMatrices
       \/ CallGetGellMannToStdBasisTransformMatrix
       \/ CallGetPauliProdMatrices
       \/ CallGetPauliProdToStdBasisTransformMatrix
       \/ CallBasisChg_StdToGellMann
       \/ CallBasisChg_StdToPauliProd
       \/ CallBasisChg_GellMannToStd
       \/ CallBasisChg_PauliProdToStd

SpecBasis == InitBasis /\ [][NextBasis]_vars

-----------------------------------------------------------------------------
(* Properties of the BasisTools calls *)

IsStructure(s) == s.kind \in {"int", "list"}

\* n = 2^k for a natural number k
IsPowerOfTwo(n) == \E k \in 0..n : 2 ^ k = n

\* the diagonal block (from 1) holding row or column i (from 0) of a
\* dmDim x dmDim matrix
BlockIndex(blockDims, i) ==
    CHOOSE b \in 1..Len(blockDims) :
        /\ SumInts(SubSeq(blockDims, 1, b - 1)) <= i
        /\ i < SumInts(SubSeq(blockDims, 1, b))

\* the positions of the non-zero entries of the matrix M
NonZeroPositions(M) == {p \in (0..(M.r - 1)) \X (0..(M.c - 1)) : ~IsZero(M.a[p[1]][p[2]])}

\* position p comes before position q: in an earlier block, or in the same
\* block and earlier in row-major order
Before(blockDims, p, q) ==
    \/ BlockIndex(blockDims, p[1]) < BlockIndex(blockDims, q[1])
    \/ /\ BlockIndex(blockDims, p[1]) = BlockIndex(blockDims, q[1])
       /\ (p[1] < q[1] \/ (p[1] = q[1] /\ p[2] < q[2]))

HasShape(M, r, c) == M.nd = 2 /\ M.r = r /\ M.c = c

\* C9: for every structure GetMatrixUnitMatrices returns gateDim matrices of
\* shape dmDim x dmDim, each with a single non-zero entry, which is 1 and lies
\* inside a diagonal block; the positions of the 1-entries are distinct and
\* run block by block, row-major inside a block.
C9_MatrixUnitBasis ==
    (call.fn = "GetMatrixUnitMatrices" /\ IsStructure(call.dims)) =>
        /\ call.out.ok
        /\ Len(call.out.val) = GateDimOf(call.dims)
        /\ \A n \in 1..Len(call.out.val) :
              /\ HasShape(call.out.val[n], DmDimOf(call.dims), DmDimOf(call.dims))
              /\ Cardinality(NonZeroPositions(call.out.val[n])) = 1
              /\ \A p \in NonZeroPositions(call.out.val[n]) :
                    /\ call.out.val[n].a[p[1]][p[2]] = One
                    /\ BlockIndex(BlockDimsOf(call.dims), p[1])
                         = BlockIndex(BlockDimsOf(call.dims), p[2])
        /\ \A m, n \in 1..Len(call.out.val) :
              m < n => \A p \in NonZeroPositions(call.out.val[m]) :
                           \A q \in NonZeroPositions(call.out.val[n]) :
                               Before(BlockDimsOf(call.dims), p, q)

\* a structure of two unequal blocks has been handed to GetMatrixUnitMatrices
C9_Witness ==
    /\ call.fn = "GetMatrixUnitMatrices"
    /\ call.dims = ListDims(<<1, 2>>)
    /\ call.out.ok
    /\ Len(call.out.val) = 5

\* C7: GetPauliProdMatrices(dim) raises unless dim is a python int that is a
\* power of two; for dim in {1, 2, 4, 8} it returns dim^2 matrices of shape
\* dim x dim, and for dim = 1 the single 1x1 matrix [1].
C7_PauliProductBasis ==
    call.fn = "GetPauliProdMatrices" =>
        IF call.dims.type = "int" /\ IsPowerOfTwo(call.dims.val)
        THEN call.dims.val \in {1, 2, 4, 8} =>
                 /\ call.out.ok
                 /\ Len(call.out.val) = call.dims.val * call.dims.val
                 /\ \A n \in 1..Len(call.out.val) :
                        HasShape(call.out.val[n], call.dims.val, call.dims.val)
                 /\ call.dims.val = 1 => call.out.val = <<Mx(1, 1, LAMBDA i, j : One)>>
        ELSE ~call.out.ok

\* the three-qubit Pauli-product basis has been built
C7_Witness ==
    /\ call.fn = "GetPauliProdMatrices"
    /\ call.dims = PyInt(8)
    /\ call.out.ok
    /\ Len(call.out.val) = 64

\* C8 (as the code has it): the Pauli-product-to-Standard transform matrix of
\* a structure is built exactly when every block dimension of the structure
\* is a power of two, and is then a gateDim x gateDim matrix.
C8_PauliTransformDefined ==
    (call.fn = "GetPauliProdToStdBasisTransformMatrix" /\ IsStructure(call.dims)) =>
        /\ call.out.ok <=> \A b \in 1..Len(BlockDimsOf(call.dims)) :
                               IsPowerOfTwo(BlockDimsOf(call.dims)[b])
        /\ call.out.ok =>
               HasShape(call.out.val, GateDimOf(call.dims), GateDimOf(call.dims))

\* C8 as stated: the transform matrix is built exactly when dmDim, the sum of
\* the block dimensions, is a power of two.
C8_AsStated ==
    (call.fn = "GetPauliProdToStdBasisTransformMatrix" /\ IsStructure(call.dims)) =>
        (call.out.ok <=> IsPowerOfTwo(DmDimOf(call.dims)))

\* the transform matrix of the blocks [1, 2], of dmDim 3, has been built
C8_Witness ==
    /\ call.fn = "GetPauliProdToStdBasisTransformMatrix"
    /\ call.dims = ListDims(<<1, 2>>)
    /\ call.out.ok
    /\ HasShape(call.out.val, 5, 5)

FromStdCalls == {"basisChg_StdToGellMann", "basisChg_StdToPauliProd"}
ToStdCalls == {"basisChg_GellMannToStd", "basisChg_PauliProdToStd"}

\* the structure a basisChg call works with, None resolved by the input's size
ResolvedDims(c) == DefaultDims(c.orig, c.dims)

\* the outcome of building the transform matrix of the basis kind of call c
ToStdOf(c) ==
    IF c.fn \in {"basisChg_StdToGellMann", "basisChg_GellMannToStd"}
    THEN GetGellMannToStdBasisTransformMatrix(ResolvedDims(c))
    ELSE GetPauliProdToStdBasisTransformMatrix(ResolvedDims(c))

\* the basis kind of call c is defined for its structure, and the input has
\* the structure's gateDim rows
Supported(c) ==
    /\ IsStructure(ResolvedDims(c))
    /\ ToStdOf(c).ok
    /\ ToStdOf(c).val.r = c.orig.r

\* M = M^dagger
IsHermitianMx(M) ==
    IsSquareMx(M) /\ \A i, j \in 0..(M.r - 1) : M.a[i][j] = Conj(M.a[j][i])

\* the index of the transpose of position k of a vectorized block-diagonal matrix
TransposedIndex(blockDims, k) ==
    LET b == CHOOSE b \in 1..Len(blockDims) :
                 /\ BlockStart(blockDims, b) <= k
                 /\ k < BlockStart(blockDims, b) + blockDims[b] * blockDims[b]
        o == k - BlockStart(blockDims, b)
    IN  BlockStart(blockDims, b) + (o % blockDims[b]) * blockDims[b] + (o \div blockDims[b])

\* v vectorizes a block-diagonal Hermitian matrix
IsHermitianVec(v, blockDims) ==
    IsVector(v) /\ \A k \in 0..(v.r - 1) :
                       v.a[k][0] = Conj(v.a[TransposedIndex(blockDims, k)][0])

\* the converted object whose imaginary part the Std -> B call c examines
Converted(c) ==
    IF IsSquareMx(c.arg)
    THEN Dot(Inv(ToStdOf(c).val).val, Dot(c.arg, ToStdOf(c).val))
    ELSE Dot(Inv(ToStdOf(c).val).val, c.arg)

\* C5: a conversion from the Standard basis into the Gell-Mann or the
\* Pauli-product basis fails with ValueError when the norm of the imaginary
\* part of the converted object exceeds 1e-8, and otherwise returns the real
\* part of the converted object, a real array of the shape of the input.
C5_ImaginaryPartChecked ==
    (call.fn \in FromStdCalls /\ Supported(call)) =>
        With(Converted(call), LAMBDA x :
            IF ExceedsImagTol(ImagNormSq(x))
            THEN call.out = Raise("ValueError")
            ELSE /\ call.out.ok
                 /\ call.out.val.nd = call.arg.nd
                 /\ call.out.val.r = call.arg.r
                 /\ call.out.val.c = call.arg.c
                 /\ \A i \in 0..(call.arg.r - 1) : \A j \in 0..(call.arg.c - 1) :
                        /\ call.out.val.a[i][j] = Real(x.a[i][j])
                        /\ IsZero(Imag(call.out.val.a[i][j])))

\* a one-qubit matrix whose Gell-Mann form is not real has been refused
C5_Witness ==
    /\ call.fn = "basisChg_StdToGellMann"
    /\ call.dims = IntDim(2)
    /\ call.arg = SingleMx(4, 0, 1, Cplx(0, 1))
    /\ call.out = Raise("ValueError")

\* C4 (as the code has it): for a supported structure and basis kind, a vector
\* that vectorizes a block-diagonal Hermitian matrix converts Std -> B; and
\* whenever Std -> B has succeeded on an input M, B -> Std of its result
\* succeeds and returns M.
C4_RoundTrip ==
    /\ (call.fn \in FromStdCalls /\ Supported(call)
            /\ IsHermitianVec(call.arg, BlockDimsOf(ResolvedDims(call))))
           => call.out.ok
    /\ call.fn \in ToStdCalls => (call.out.ok /\ call.out.val = call.orig)

\* C4 as stated: for a supported structure and basis kind every Hermitian
\* input, square matrix or vector, converts Std -> B, and B -> Std of the
\* result returns the input.
C4_AsStated ==
    /\ (call.fn \in FromStdCalls /\ Supported(call)
            /\ (IsHermitianMx(call.arg)
                  \/ IsHermitianVec(call.arg, BlockDimsOf(ResolvedDims(call)))))
           => call.out.ok
    /\ call.fn \in ToStdCalls => (call.out.ok /\ call.out.val = call.orig)

\* a one-qubit gate matrix with complex entries has made the round trip
\* through the Gell-Mann basis
C4_Witness ==
    /\ call.fn = "basisChg_GellMannToStd"
    /\ call.dims = IntDim(2)
    /\ call.orig = HermMx(4, 1, 2, Cplx(0, 1))
    /\ call.out.ok
    /\ call.out.val = call.orig

\* Tr(A.B)
TraceOfProduct(A, B) == Trace(Dot(A, B))

\* C6 as stated: for every structure the normalized Gell-Mann basis has
\* gateDim matrices of shape dmDim x dmDim with Tr(Bi.Bj) = delta_ij, and is
\* made of the normalized Gell-Mann matrices of each block dimension (identity
\* over sqrt(d_k), the others over sqrt(2)) embedded block-diagonally.
C6_AsStated ==
    (call.fn = "GetNormalizedGellMannMatrices" /\ IsStructure(call.dims)) =>
        /\ call.out.ok
        /\ Len(call.out.val) = GateDimOf(call.dims)
        /\ \A n \in 1..Len(call.out.val) :
               HasShape(call.out.val[n], DmDimOf(call.dims), DmDimOf(call.dims))
        /\ \A m, n \in 1..Len(call.out.val) :
               TraceOfProduct(call.out.val[m], call.out.val[n])
                   = IF m = n THEN One ELSE Zero
        /\ call.out.val =
               EmbedBlocks(BlockDimsOf(call.dims),
                           [b \in 1..Len(BlockDimsOf(call.dims)) |->
                               GetNormalizedGellMannMatrices(
                                   IntDim(BlockDimsOf(call.dims)[b])).val],
                           1, 0, DmDimOf(call.dims))

\* the flattened positions dmDim*i + j of the entries (i, j) inside the
\* diagonal blocks of a dmDim x dmDim matrix
BlockPositions(blockDims, dmDim) ==
    {dmDim * p[1] + p[2] :
        p \in {q \in (0..(dmDim - 1)) \X (0..(dmDim - 1)) :
                  BlockIndex(blockDims, q[1]) = BlockIndex(blockDims, q[2])}}

\* f(a): the flattened position of the a-th (from 0) block position
EmbeddedIndex(blockDims, dmDim, a) ==
    CHOOSE x \in BlockPositions(blockDims, dmDim) :
        Cardinality({y \in BlockPositions(blockDims, dmDim) : y < x}) = a

\* C10 as stated: for every structure, int or list, expandFromStdDirectSumMx
\* takes a gateDim x gateDim matrix M to the dmDim^2 x dmDim^2 matrix E with
\* E[f(a), f(b)] = M[a, b] and zero elsewhere; contractToStdDirectSumMx takes
\* a dmDim^2 x dmDim^2 matrix E to the gateDim x gateDim matrix C with
\* C[a, b] = E[f(a), f(b)]; both return their input when the structure is None.
C10_AsStated ==
    /\ (call.fn = "expandFromStdDirectSumMx" /\ IsStructure(call.dims)
            /\ HasShape(call.arg, GateDimOf(call.dims), GateDimOf(call.dims))) =>
           /\ call.out.ok
           /\ HasShape(call.out.val, DmDimOf(call.dims) * DmDimOf(call.dims),
                                     DmDimOf(call.dims) * DmDimOf(call.dims))
           /\ \A a, b \in 0..(GateDimOf(call.dims) - 1) :
                  call.out.val.a[EmbeddedIndex(BlockDimsOf(call.dims), DmDimOf(call.dims), a)]
                                [EmbeddedIndex(BlockDimsOf(call.dims), DmDimOf(call.dims), b)]
                      = call.arg.a[a][b]
           /\ \A x, y \in 0..(DmDimOf(call.dims) * DmDimOf(call.dims) - 1) :
                  (x \notin BlockPositions(BlockDimsOf(call.dims), DmDimOf(call.dims))
                      \/ y \notin BlockPositions(BlockDimsOf(call.dims), DmDimOf(call.dims)))
                  => IsZero(call.out.val.a[x][y])
    /\ (call.fn = "contractToStdDirectSumMx" /\ IsStructure(call.dims)
            /\ HasShape(call.arg, DmDimOf(call.dims) * DmDimOf(call.dims),
                                  DmDimOf(call.dims) * DmDimOf(call.dims))) =>
           /\ call.out.ok
           /\ HasShape(call.out.val, GateDimOf(call.dims), GateDimOf(call.dims))
           /\ \A a, b \in 0..(GateDimOf(call.dims) - 1) :
                  call.out.val.a[a][b]
                      = call.arg.a[EmbeddedIndex(BlockDimsOf(call.dims), DmDimOf(call.dims), a)]
                                  [EmbeddedIndex(BlockDimsOf(call.dims), DmDimOf(call.dims), b)]
    /\ (call.fn \in {"expandFromStdDirectSumMx", "contractToStdDirectSumMx"}
            /\ call.dims.kind = "None") => call.out = Return(call.arg)

\* the number of pairs (b, i) with b a block and 0 <= i < F(b): a sum taken
\* by counting
CountSum(blockDims, square) ==
    Cardinality({p \in (1..Len(blockDims)) \X (0..(MaxDmDim * MaxDmDim)) :
                    p[2] < IF square THEN blockDims[p[1]] * blockDims[p[1]]
                                     ELSE blockDims[p[1]]})

TransformCalls ==
    {"GetGellMannToStdBasisTransformMatrix", "GetPauliProdToStdBasisTransformMatrix"}

\* the normalized basis matrices of every block dimension, of the basis kind
\* of the transform function fn
BlockBases(fn, blockDims) ==
    Force([b \in 1..Len(blockDims) |->
              IF fn = "GetGellMannToStdBasisTransformMatrix"
              THEN GetNormalizedGellMannMatrices(IntDim(blockDims[b])).val
              ELSE GetPauliProdMatrices(PyInt(blockDims[b])).val])

\* the row and column offset of block b: the squares of the earlier blocks
SquaresBefore(blockDims, b) == CountSum(SubSeq(blockDims, 1, b - 1), TRUE)

\* index i lies in the rows (columns) of block b
InBlock(blockDims, b, i) ==
    /\ SquaresBefore(blockDims, b) <= i
    /\ i < SquaresBefore(blockDims, b) + blockDims[b] * blockDims[b]

\* C12: a transform matrix is gateDim x gateDim; for every block of dimension
\* d, at offset the sum of the squares of the earlier block dimensions, column
\* j holds the row-major flattening of the j-th normalized basis matrix of
\* dimension d; every entry outside the diagonal blocks is zero.  The
\* Gell-Mann transform matrix exists for every structure.
C12_TransformMatrixLayout ==
    /\ (call.fn = "GetGellMannToStdBasisTransformMatrix" /\ IsStructure(call.dims)) =>
           call.out.ok
    /\ (call.fn \in TransformCalls /\ call.out.ok) =>
           With2(BlockDimsOf(call.dims), call.out.val, LAMBDA blockDims, T :
               With(BlockBases(call.fn, blockDims), LAMBDA bases :
                   /\ HasShape(T, CountSum(blockDims, TRUE), CountSum(blockDims, TRUE))
                   /\ \A b \in 1..Len(blockDims) :
                          \A i, j \in 0..(blockDims[b] * blockDims[b] - 1) :
                              T.a[SquaresBefore(blockDims, b) + i][SquaresBefore(blockDims, b) + j]
                                  = bases[b][j + 1].a[i \div blockDims[b]][i % blockDims[b]]
                   /\ \A i, j \in 0..(T.r - 1) :
                          (~\E b \in 1..Len(blockDims) :
                                InBlock(blockDims, b, i) /\ InBlock(blockDims, b, j))
                              => T.a[i][j] = Zero))

\* a transform matrix has been built for a structure of several blocks, one
\* of them of dimension two or more
C12_Witness ==
    /\ call.fn \in TransformCalls
    /\ call.out.ok
    /\ call.dims.kind = "list"
    /\ Len(call.dims.dims) > 1
    /\ \E b \in 1..Len(call.dims.dims) : call.dims.dims[b] > 1
    /\ call.dims.dims[1] = 1

\* entry (a, b) of the Pauli matrix number s: 0 is I, 1 is X, 2 is Y, 3 is Z
PauliEntry(s, a, b) ==
    IF s = 0 THEN (IF a = b THEN One ELSE Zero)
    ELSE IF s = 1 THEN (IF a # b THEN One ELSE Zero)
    ELSE IF s = 2 THEN (IF a = b THEN Zero ELSE IF a = 0 THEN Cplx(0, 0 - 1) ELSE Cplx(0, 1))
    ELSE (IF a # b THEN Zero ELSE IF a = 0 THEN One ELSE IntNum(0 - 1))

\* digit q (1 is the most significant) of k written in base b with n digits
DigitOf(k, q, n, b) == (k \div (b ^ (n - q))) % b

\* entry (r, c) of the Kronecker product of the n factors (I, X, Y, Z)/sqrt(2)
\* whose numbers are the base-4 digits of k, factors q..n
RECURSIVE KroneckerEntry(_, _, _, _, _)
KroneckerEntry(k, n, q, r, c) ==
    IF q > n THEN One
    ELSE Mul(Div(PauliEntry(DigitOf(k, q, n, 4), DigitOf(r, q, n, 2), DigitOf(c, q, n, 2)),
                 SqrtRat(2, 1)),
             KroneckerEntry(k, n, q + 1, r, c))

\* C13: GetPauliProdMatrices(2^n) returns 4^n matrices, the k-th (from 0) the
\* Kronecker product of the n factors of (I, X, Y, Z)/sqrt(2) numbered by the
\* base-4 digits of k, most significant digit first: the lexicographic order
\* with the first qubit most significant.
C13_PauliProductOrder ==
    (call.fn = "GetPauliProdMatrices" /\ call.out.ok) =>
        \E n \in 0..MaxPauliDim :
            /\ call.dims.val = 2 ^ n
            /\ Len(call.out.val) = 4 ^ n
            /\ \A k \in 0..(4 ^ n - 1) :
                   /\ HasShape(call.out.val[k + 1], 2 ^ n, 2 ^ n)
                   /\ \A r, c \in 0..(2 ^ n - 1) :
                          call.out.val[k + 1].a[r][c] = KroneckerEntry(k, n, 1, r, c)

\* GetPauliProdMatrices has answered for two qubits, with IX second and XI fifth
C13_Witness ==
    /\ call.fn = "GetPauliProdMatrices"
    /\ call.out.ok
    /\ call.dims.val = 4
    /\ call.out.val[2] = Kron(Scale(id2x2, Recip(sqrt2)), Scale(sigmax, Recip(sqrt2)))
    /\ call.out.val[5] = Kron(Scale(sigmax, Recip(sqrt2)), Scale(id2x2, Recip(sqrt2)))

-----------------------------------------------------------------------------
(* packages/pygsti/objects/gateset.py *)

\* A label: a key prefix and a number, as in "rho0", "E1", "G0"; the prefixes
\* are those GateSet.__init__ takes by default.
Label(prefix, n) == [prefix |-> prefix, n |-> n]
prep_prefix == "rho"
effect_prefix == "E"
gate_prefix == "G"
identity_label == Label("identity", 0)
remainder_label == Label("remainder", 0)
RemainderLabel == remainder_label

\* The text of a label as python sees it: a sequence of characters
Text(word) ==
    CASE word = "rho" -> <<"r", "h", "o">>
      [] word = "E" -> <<"E">>
      [] word = "G" -> <<"G">>
      [] word = "X" -> <<"X">>
      [] word = "remainder" -> <<"r", "e", "m", "a", "i", "n", "d", "e", "r">>
      [] word = "identity" -> <<"i", "d", "e", "n", "t", "i", "t", "y">>
Digit(n) == CASE n = 0 -> "0" [] n = 1 -> "1" [] n = 2 -> "2" [] n = 3 -> "3"
LabelText(label) ==
    IF label.prefix \in {"remainder", "identity"} THEN Text(label.prefix)
    ELSE Text(label.prefix) \o <<Digit(label.n)>>

\* label.startswith(prefix)
startswith(text, prefix) ==
    Len(prefix) <= Len(text) /\ SubSeq(text, 1, Len(prefix)) = prefix

\* The prefixes and labels a GateSet was constructed with
Prefixes(prep, effect, gate, remainder, identity) ==
    [prep |-> prep, effect |-> effect, gate |-> gate,
     remainder |-> remainder, identity |-> identity]
DefaultPrefixes ==
    Prefixes(Text(prep_prefix), Text(effect_prefix), Text(gate_prefix),
             LabelText(remainder_label), LabelText(identity_label))

\* the if / elif chain without the remainder label
Route_NoRemainder(text, px) ==
    IF startswith(text, px.prep) THEN "preps"
    ELSE IF startswith(text, px.effect) THEN "effects"
    ELSE IF startswith(text, px.gate) THEN "gates"
    ELSE IF text = px.identity THEN "povm_identity"
    ELSE "KeyError"

\* the if / elif chain of __setitem__ and __getitem__: the store a label is
\* routed to
Route(text, px) ==
    IF startswith(text, px.prep) THEN "preps"
    ELSE IF startswith(text, px.effect) \/ text = px.remainder THEN "effects"
    ELSE IF startswith(text, px.gate) THEN "gates"
    ELSE IF text = px.identity THEN "povm_identity"
    ELSE "KeyError"

\* GateSet._strict
strict == FALSE

\* An operator (Gate or SPAMVec): its parameterization typ, its shape ("vec":
\* d x 1, "gate": d x d) and its raw elements base, row-major.
Operator(typ, shape, d, base) == [typ |-> typ, shape |-> shape, d |-> d, base |-> base]

\* the number of leading raw elements that are no parameters: none of a
\* "full" operator, the first row of a "TP" gate, the first element of a "TP"
\* vector, all of a "static" operator
NumFixed(op) ==
    IF op.typ = "full" THEN 0
    ELSE IF op.typ = "static" THEN Len(op.base)
    ELSE IF op.shape = "gate" THEN op.d ELSE 1

OpNumParams(op) == Len(op.base) - NumFixed(op)
OpSize(op) == Len(op.base)
OpToVector(op) == SubSeq(op.base, NumFixed(op) + 1, Len(op.base))

\* obj.from_vector(v): fails unless len(v) is the operator's num_params()
OpFromVector(op, v) ==
    IF Len(v) # OpNumParams(op) THEN Raise("ValueError")
    ELSE Return([op EXCEPT !.base = SubSeq(op.base, 1, NumFixed(op)) \o v])

\* gate.convert / spamvec.convert: an operator of the target kind holding the
\* current raw value
convert(op, typ) == [op EXCEPT !.typ = typ]

\* the first row of a gate is [1, 0, ..., 0], as a "TP" gate has it
HasTPFirstRow(op) ==
    \A k \in 1..op.d : op.base[k] = IF k = 1 THEN 1 ELSE 0

\* An ordered dictionary: a sequence of items [label, obj] in insertion order
values(dict) == [k \in 1..Len(dict) |-> dict[k].obj]
keys(dict) == {dict[k].label : k \in 1..Len(dict)}
Item(label, obj) == [label |-> label, obj |-> obj]

\* python's v[a:b] for 0 <= a <= b
PySlice(v, a, b) == SubSeq(v, a + 1, IF b < Len(v) THEN b ELSE Len(v))

\* GateSet.num_params
num_params(ps, es, gs) ==
    SumInts([k \in 1..Len(ps) |-> OpNumParams(ps[k].obj)])
    + SumInts([k \in 1..Len(es) |-> OpNumParams(es[k].obj)])
    + SumInts([k \in 1..Len(gs) |-> OpNumParams(gs[k].obj)])

\* GateSet.num_elements
num_elements(ps, es, gs) ==
    SumInts([k \in 1..Len(ps) |-> OpSize(ps[k].obj)])
    + SumInts([k \in 1..Len(es) |-> OpSize(es[k].obj)])
    + SumInts([k \in 1..Len(gs) |-> OpSize(gs[k].obj)])

\* objs_to_vectorize of to_vector and from_vector
objs_to_vectorize(ps, es, gs) == values(ps) \o values(es) \o values(gs)

\* the loop of to_vector: v[off:off+np] = obj.to_vector(); off += np
RECURSIVE ToVectorLoop(_)
ToVectorLoop(objs) ==
    IF objs = <<>> THEN <<>>
    ELSE OpToVector(Head(objs)) \o ToVectorLoop(Tail(objs))

\* GateSet.to_vector
to_vector(ps, es, gs) == ToVectorLoop(objs_to_vectorize(ps, es, gs))

\* the loop of from_vector with "off += np" left out: every operator reads
\* from the start of v
RECURSIVE FromVectorLoop_NoAdvance(_, _, _)
FromVectorLoop_NoAdvance(objs, v, off) ==
    IF objs = <<>> THEN Return(<<>>)
    ELSE With(OpFromVector(Head(objs), PySlice(v, off, off + OpNumParams(Head(objs)))),
              LAMBDA first :
                  IF ~first.ok THEN [first EXCEPT !.val = objs]
                  ELSE With(FromVectorLoop_NoAdvance(Tail(objs), v, off),
                            LAMBDA rest : [rest EXCEPT !.val = <<first.val>> \o rest.val]))

\* the loop of from_vector: obj.from_vector(v[off:off+np]); off += np.  The
\* outcome holds the operators as the loop leaves them, also when it raises.
RECURSIVE FromVectorLoop(_, _, _)
FromVectorLoop(objs, v, off) ==
    IF objs = <<>> THEN Return(<<>>)
    ELSE With(OpFromVector(Head(objs), PySlice(v, off, off + OpNumParams(Head(objs)))),
              LAMBDA first :
                  IF ~first.ok THEN [first EXCEPT !.val = objs]
                  ELSE With(FromVectorLoop(Tail(objs), v, off + OpNumParams(Head(objs))),
                            LAMBDA rest : [rest EXCEPT !.val = <<first.val>> \o rest.val]))

\* the dictionary dict with its objects replaced, in order, by objs[start+1..]
WithObjects(dict, objs, start) ==
    [k \in 1..Len(dict) |-> Item(dict[k].label, objs[start + k])]

\* the model a call leaves behind: the three dictionaries and the basis
ModelState(ps, es, gs, b) == [preps |-> ps, effects |-> es, gates |-> gs, basis |-> b]

\* GateSet.reset_basis: the basis name and dimension ("unknown", None)
UnknownBasis == [name |-> "unknown", dim |-> NoneDims]

\* from_vector without the reset_basis() that ends it
from_vector_KeepBasis(ps, es, gs, b, v) ==
    IF Len(v) # num_params(ps, es, gs)
    THEN [out |-> Raise("AssertionError"), state |-> ModelState(ps, es, gs, b)]
    ELSE With(FromVectorLoop(objs_to_vectorize(ps, es, gs), v, 0), LAMBDA r :
             [out |-> [r EXCEPT !.val = <<>>],
              state |-> ModelState(WithObjects(ps, r.val, 0),
                                   WithObjects(es, r.val, Len(ps)),
                                   WithObjects(gs, r.val, Len(ps) + Len(es)),
                                   b)])

\* GateSet.from_vector with the length check made after the basis is reset
from_vector_LateCheck(ps, es, gs, b, v) ==
    IF Len(v) # num_params(ps, es, gs)
    THEN [out |-> Raise("AssertionError"), state |-> ModelState(ps, es, gs, UnknownBasis)]
    ELSE With(FromVectorLoop(objs_to_vectorize(ps, es, gs), v, 0), LAMBDA r :
             [out |-> [r EXCEPT !.val = <<>>],
              state |-> ModelState(WithObjects(ps, r.val, 0),
                                   WithObjects(es, r.val, Len(ps)),
                                   WithObjects(gs, r.val, Len(ps) + Len(es)),
                                   IF r.ok THEN UnknownBasis ELSE b)])

\* GateSet.from_vector: the outcome and the model it leaves behind
from_vector(ps, es, gs, b, v) ==
    IF Len(v) # num_params(ps, es, gs)
    THEN [out |-> Raise("AssertionError"), state |-> ModelState(ps, es, gs, b)]
    ELSE With(FromVectorLoop(objs_to_vectorize(ps, es, gs), v, 0), LAMBDA r :
             [out |-> [r EXCEPT !.val = <<>>],
              state |-> ModelState(WithObjects(ps, r.val, 0),
                                   WithObjects(es, r.val, Len(ps)),
                                   WithObjects(gs, r.val, Len(ps) + Len(es)),
                                   IF r.ok THEN UnknownBasis ELSE b)])

\* the loop of get_vector_offsets over the chained items:
\* offsets[label] = (off, off+np); off += np
RECURSIVE OffsetsLoop(_, _)
OffsetsLoop(items, off) ==
    IF items = <<>> THEN <<>>
    ELSE OffsetsLoop(Tail(items), off + OpNumParams(Head(items).obj))
         @@ (Head(items).label :> <<off, off + OpNumParams(Head(items).obj)>>)

\* get_vector_offsets chaining the gates before the effects
get_vector_offsets_GatesFirst(ps, es, gs) == OffsetsLoop(ps \o gs \o es, 0)

\* GateSet.get_vector_offsets: a dictionary from label to (start, next start)
get_vector_offsets(ps, es, gs) == OffsetsLoop(ps \o es \o gs, 0)

\* obj.deriv_wrt_params(): the size x num_params matrix (a list of rows) of
\* the derivatives of the raw elements with respect to the parameters; element
\* NumFixed + p is parameter p
OpDerivWrtParams(op) ==
    [e \in 1..OpSize(op) |->
        [p \in 1..OpNumParams(op) |-> IF e = NumFixed(op) + p THEN 1 ELSE 0]]

\* numpy.zeros((r, c)) as a list of rows
ZeroRows(r, c) == [e \in 1..r |-> [p \in 1..c |-> 0]]

\* deriv[eo:eo+ne, po:po+np] = block
SetBlock(deriv, eo, po, block) ==
    [e \in 1..Len(deriv) |->
        [p \in 1..Len(deriv[e]) |->
            IF /\ eo < e /\ e <= eo + Len(block)
               /\ po < p /\ p <= po + Len(block[e - eo])
            THEN block[e - eo][p - po]
            ELSE deriv[e][p]]]

\* the loop of deriv_wrt_params with the element offset advanced by the
\* number of parameters: eo += np
RECURSIVE DerivLoop_ParamStride(_, _, _, _)
DerivLoop_ParamStride(objs, eo, po, deriv) ==
    IF objs = <<>> THEN deriv
    ELSE DerivLoop_ParamStride(Tail(objs), eo + OpNumParams(Head(objs)),
                               po + OpNumParams(Head(objs)),
                               SetBlock(deriv, eo, po, OpDerivWrtParams(Head(objs))))

\* the loop of deriv_wrt_params:
\* deriv[eo:eo+ne, po:po+np] = obj.deriv_wrt_params(); eo += ne; po += np
RECURSIVE DerivLoop(_, _, _, _)
DerivLoop(objs, eo, po, deriv) ==
    IF objs = <<>> THEN deriv
    ELSE DerivLoop(Tail(objs), eo + OpSize(Head(objs)), po + OpNumParams(Head(objs)),
                   SetBlock(deriv, eo, po, OpDerivWrtParams(Head(objs))))

\* GateSet.deriv_wrt_params
deriv_wrt_params(ps, es, gs) ==
    DerivLoop(objs_to_vectorize(ps, es, gs), 0, 0,
              ZeroRows(num_elements(ps, es, gs), num_params(ps, es, gs)))

\* numpy.dot of the d x d matrices A and B, as row-major lists
IntMatMul(A, B, d) ==
    [k \in 1..(d * d) |->
        SumInts([m \in 1..d |-> A[((k - 1) \div d) * d + m] * B[(m - 1) * d + ((k - 1) % d) + 1]])]

\* numpy.dot of the d x d matrix A, or of its transpose, and the vector v
IntMatVec(A, v, d, transposed) ==
    [k \in 1..d |->
        SumInts([m \in 1..d |->
                    (IF transposed THEN A[(m - 1) * d + k] ELSE A[(k - 1) * d + m]) * v[m]])]

\* the change of the raw elements of an operator under the generator
\* _mut(i, j, dim) of a gauge transformation, written out element by element:
\* e_i rho_j for a prep, -e_j E_i for an effect, and the commutator of the
\* matrix unit with the gate
GaugeDerivOf(kind, op, i, j) ==
    IF kind = "prep"
    THEN [k \in 1..op.d |-> IF k - 1 = i THEN op.base[j + 1] ELSE 0]
    ELSE IF kind = "effect"
    THEN [k \in 1..op.d |-> IF k - 1 = j THEN 0 - op.base[i + 1] ELSE 0]
    ELSE [k \in 1..(op.d * op.d) |->
             (IF (k - 1) \div op.d = i THEN op.base[j * op.d + ((k - 1) % op.d) + 1] ELSE 0)
             - (IF (k - 1) % op.d = j THEN op.base[((k - 1) \div op.d) * op.d + i + 1] ELSE 0)]

\* the concatenation of the sequences of a sequence
RECURSIVE Concat(_)
Concat(seqs) == IF seqs = <<>> THEN <<>> ELSE Head(seqs) \o Concat(Tail(seqs))

\* _bt._mut(i, j, dim) as a row-major list: one at (i, j), zeros elsewhere
unitMx(i, j, dim) == [k \in 1..(dim * dim) |-> IF k - 1 = i * dim + j THEN 1 ELSE 0]

\* the dictionary of gsDeriv filled under the labels of dict with what Value
\* gives for each operator, fully parameterized, of the model's dimension
ScratchItem(label, shape, dim, base) == Item(label, Operator("full", shape, dim, base))

\* gsDeriv after the loops that fill it with zeros
gsDerivZeros(ps, es, gs, dim) ==
    [preps |-> [k \in 1..Len(ps) |->
                   ScratchItem(ps[k].label, "vec", dim, [e \in 1..dim |-> 0])],
     effects |-> [k \in 1..Len(es) |->
                     ScratchItem(es[k].label, "vec", dim, [e \in 1..dim |-> 0])],
     gates |-> [k \in 1..Len(gs) |->
                   ScratchItem(gs[k].label, "gate", dim, [e \in 1..(dim * dim) |-> 0])]]

\* gsDeriv after the loops for the generator (i, j): dot(unitMx, rhoVec),
\* -dot(EVec.T, unitMx).T and dot(unitMx, gate) - dot(gate, unitMx)
gsDerivOf(ps, es, gs, dim, i, j) ==
    With(unitMx(i, j, dim), LAMBDA u :
        [preps |-> [k \in 1..Len(ps) |->
                       ScratchItem(ps[k].label, "vec", dim,
                                   IntMatVec(u, ps[k].obj.base, dim, FALSE))],
         effects |-> [k \in 1..Len(es) |->
                         ScratchItem(es[k].label, "vec", dim,
                                     [e \in 1..dim |->
                                         0 - IntMatVec(u, es[k].obj.base, dim, TRUE)[e]])],
         gates |-> [k \in 1..Len(gs) |->
                       ScratchItem(gs[k].label, "gate", dim,
                                   [e \in 1..(dim * dim) |->
                                       IntMatMul(u, gs[k].obj.base, dim)[e]
                                           - IntMatMul(gs[k].obj.base, u, dim)[e]])]])

\* gsDeriv.to_vector() for the generator (i, j)
GaugeDerivVector(ps, es, gs, dim, i, j) ==
    With(gsDerivOf(ps, es, gs, dim, i, j), LAMBDA gsDeriv :
        to_vector(gsDeriv.preps, gsDeriv.effects, gsDeriv.gates))

\* the column of dG that the generator (i, j) fills
GaugeColumn_Transposed(i, j, dim) == j * dim + i
GaugeColumn(i, j, dim) == i * dim + j

\* assert(gsDeriv.num_elements() == gsDeriv.num_params() == nElements)
ScratchIsFull(gsDeriv, nElements) ==
    /\ num_elements(gsDeriv.preps, gsDeriv.effects, gsDeriv.gates)
           = num_params(gsDeriv.preps, gsDeriv.effects, gsDeriv.gates)
    /\ num_params(gsDeriv.preps, gsDeriv.effects, gsDeriv.gates) = nElements

\* dG, column by column: dG[:, i*dim+j] = gsDeriv.to_vector() in the loops
\* over i and j
DGColumns(ps, es, gs, dim) ==
    Force([c \in 0..(dim * dim - 1) |->
              With(CHOOSE ij \in (0..(dim - 1)) \X (0..(dim - 1)) :
                       GaugeColumn(ij[1], ij[2], dim) = c,
                   LAMBDA ij : GaugeDerivVector(ps, es, gs, dim, ij[1], ij[2]))])

\* M = concatenate((dP, dG), axis=1): column i*dim+j of dG is the vector of
\* the generator (i, j)
GaugeMatrix(ps, es, gs, dim) ==
    With2(deriv_wrt_params(ps, es, gs),
          DGColumns(ps, es, gs, dim),
          LAMBDA dP, dG :
              Mx(num_elements(ps, es, gs), num_params(ps, es, gs) + dim * dim,
                 LAMBDA r, c :
                     IF c < num_params(ps, es, gs) THEN IntNum(dP[r + 1][c + 1])
                     ELSE IntNum(dG[c - num_params(ps, es, gs)][r + 1])))

\* nullsp[0:nParams, :]
UpperRows(X, n) == With(X, LAMBDA A : Mx(n, A.c, LAMBDA i, j : A.a[i][j]))

\* the rank check that ends get_nongauge_projector, on the ranks matrix_rank
\* found for P, for the normalized projector and for the projector R to
\* return: this one reports and returns R all the same
RankCheck_Warn(rank_P, rank_Pp, rank_ret, nParams, R) == Return(R)

\* the two asserts on the ranks, and the return of R
RankCheck(rank_P, rank_Pp, rank_ret, nParams, R) ==
    IF rank_P # rank_Pp THEN Raise("AssertionError")
    ELSE IF (nParams - rank_P) # rank_ret THEN Raise("AssertionError")
    ELSE Return(R)

\* get_nongauge_projector returning identity - P for the un-normalized
\* P = dot(gen_dG, gen_dG.T), without the rank checks
CheckedProjector_Unnormalized(gen_dG, nParams) ==
    Return(MxSub(IdentityMx(nParams), Dot(gen_dG, Transpose(gen_dG))))

\* the rank checks that end get_nongauge_projector, for the gauge directions
\* gen_dG: P = dot(gen_dG, gen_dG.T); Pp = dot(pinv(P), P), the orthogonal
\* projector onto the range of P, which is the column space of gen_dG;
\* ret = identity - Pp
CheckedProjector(gen_dG, nParams) ==
    With2(Dot(gen_dG, Transpose(gen_dG)), RangeProjector(gen_dG), LAMBDA P, Pp :
        With2(MatrixRank(P), MxSub(IdentityMx(nParams), Pp), LAMBDA rank_P, R :
            RankCheck(rank_P, MatrixRank(Pp), MatrixRank(R), nParams, R)))

\* GateSet.get_nongauge_projector(): the outcomes the call can have.  Without
\* a dimension dim**2 is a TypeError; numpy's decompositions of an array
\* without rows or columns raise LinAlgError or give an empty result,
\* depending on the numpy at hand.
get_nongauge_projector(ps, es, gs, dim) ==
    IF dim = 0 THEN {Raise("TypeError")}
    ELSE IF ~ScratchIsFull(gsDerivZeros(ps, es, gs, dim), num_elements(ps, es, gs))
    THEN {Raise("AssertionError")}
    ELSE IF num_params(ps, es, gs) = 0 \/ num_elements(ps, es, gs) = 0
    THEN {Raise("LinAlgError"), Return(ZerosMx(0, 0))}
    ELSE {CheckedProjector(UpperRows(NullspaceBasis(GaugeMatrix(ps, es, gs, dim)),
                                     num_params(ps, es, gs)),
                           num_params(ps, es, gs))}

\* GateSet.num_nongauge_params() for an outcome P of get_nongauge_projector
num_nongauge_params(P) == IF P.ok THEN Return(MatrixRank(P.val)) ELSE P

\* GateSet.num_gauge_params() for an outcome P of get_nongauge_projector
num_gauge_params(ps, es, gs, P) ==
    IF P.ok THEN Return(num_params(ps, es, gs) - MatrixRank(P.val)) ELSE P

\* The povm_identity setter on a model of dimension dim (0: None) holding the
\* identity vector identity: the outcome, and the dimension and the identity
\* vector it leaves behind.  The vector kept is always a StaticSPAMVec.
\* This one stores a fully parameterized vector.
povm_identity_setter_Full(dim, identity, value) ==
    IF value.shape = "None"
    THEN [out |-> Return(<<>>), dim |-> dim, identityVec |-> value]
    ELSE IF dim # 0 /\ dim # value.d
    THEN [out |-> Raise("ValueError"), dim |-> dim, identityVec |-> identity]
    ELSE [out |-> Return(<<>>), dim |-> value.d,
          identityVec |-> Operator("full", "vec", value.d, value.base)]

\* the povm_identity setter taking the dimension from every vector assigned
povm_identity_setter_Redimension(dim, identity, value) ==
    IF value.shape = "None"
    THEN [out |-> Return(<<>>), dim |-> dim, identityVec |-> value]
    ELSE [out |-> Return(<<>>), dim |-> value.d,
          identityVec |-> Operator("static", "vec", value.d, value.base)]

\* the povm_identity setter
povm_identity_setter(dim, identity, value) ==
    IF value.shape = "None"
    THEN [out |-> Return(<<>>), dim |-> dim, identityVec |-> value]
    ELSE IF dim # 0 /\ dim # value.d
    THEN [out |-> Raise("ValueError"), dim |-> dim, identityVec |-> identity]
    ELSE [out |-> Return(<<>>), dim |-> value.d,
          identityVec |-> Operator("static", "vec", value.d, value.base)]

\* a model: what a GateSet object holds
Model(dim, b, ps, es, gs, identity, default) ==
    [dim |-> dim, basis |-> b, preps |-> ps, effects |-> es, gates |-> gs,
     identityVec |-> identity, defaultParam |-> default]

\* numpy.concatenate((vec, zeros)) / vec[0:newDimension]: the vector of
\* length n, zero beyond the elements of base
ResizeVec(base, n) == [k \in 1..n |-> IF k <= Len(base) THEN base[k] ELSE 0]

\* the n x n matrix holding the d x d matrix base in its upper left corner,
\* cut to n x n, with zeros everywhere beyond it
ResizeGate_ZeroPad(base, d, n) ==
    [k \in 1..(n * n) |->
        IF (k - 1) \div n < d /\ (k - 1) % n < d
        THEN base[((k - 1) \div n) * d + ((k - 1) % n) + 1]
        ELSE 0]

\* the n x n matrix holding the d x d matrix base in its upper left corner,
\* cut to n x n, with ones on the diagonal beyond it
ResizeGate(base, d, n) ==
    [k \in 1..(n * n) |->
        IF (k - 1) \div n < d /\ (k - 1) % n < d
        THEN base[((k - 1) \div n) * d + ((k - 1) % n) + 1]
        ELSE IF (k - 1) \div n = (k - 1) % n THEN 1 ELSE 0]

\* the dictionary with every operator replaced by a fully parameterized one
\* of dimension n
ResizeAll(dict, n) ==
    [k \in 1..Len(dict) |->
        Item(dict[k].label,
             Operator("full", dict[k].obj.shape, n,
                      IF dict[k].obj.shape = "gate"
                      THEN ResizeGate(dict[k].obj.base, dict[k].obj.d, n)
                      ELSE ResizeVec(dict[k].obj.base, n)))]

\* the body shared by increase_dimension and decrease_dimension once the
\* assertion on newDimension has passed: a new GateSet("full") of dimension
\* newDimension, its identity vector assigned through the setter
Redimensioned(ps, es, gs, identity, newDimension) ==
    Return(Model(newDimension, UnknownBasis,
                 ResizeAll(ps, newDimension), ResizeAll(es, newDimension),
                 ResizeAll(gs, newDimension),
                 IF identity.shape = "None" THEN identity
                 ELSE povm_identity_setter(
                          newDimension, [shape |-> "None", d |-> 0, base |-> <<>>],
                          [shape |-> "vec", d |-> newDimension,
                           base |-> ResizeVec(identity.base, newDimension)]).identityVec,
                 "full"))

\* GateSet.increase_dimension(newDimension); without a dimension
\* newDimension - curDim is a TypeError
increase_dimension(ps, es, gs, dim, identity, newDimension) ==
    IF dim = 0 THEN Raise("TypeError")
    ELSE IF ~(newDimension > dim) THEN Raise("AssertionError")
    ELSE Redimensioned(ps, es, gs, identity, newDimension)

\* GateSet.decrease_dimension(newDimension); without a dimension the
\* assertion newDimension < None fails
decrease_dimension(ps, es, gs, dim, identity, newDimension) ==
    IF dim = 0 THEN Raise("AssertionError")
    ELSE IF ~(newDimension < dim) THEN Raise("AssertionError")
    ELSE Redimensioned(ps, es, gs, identity, newDimension)

\* GateSet.copy(): self.povm_identity.copy() is an AttributeError when there
\* is no identity vector
copy(ps, es, gs, dim, b, identity, default) ==
    IF identity.shape = "None" THEN Raise("AttributeError")
    ELSE Return(Model(dim, b, ps, es, gs,
                      povm_identity_setter(dim, [shape |-> "None", d |-> 0, base |-> <<>>],
                                           [shape |-> "vec", d |-> identity.d,
                                            base |-> identity.base]).identityVec,
                      default))

\* vec.set_vector(v)
OpSetVector(op, v) == [op EXCEPT !.base = v]

\* gateObj.transform(S, Si): the gate matrix becomes Si . G . S
OpTransform(op, S, Si) ==
    [op EXCEPT !.base = IntMatMul(Si, IntMatMul(op.base, S, op.d), op.d)]

\* the loops of GateSet.transform over the preps (Si . rho), the effects and
\* the identity vector (S^T . E), and the gates
TransformPreps(ps, Si) ==
    [k \in 1..Len(ps) |->
        Item(ps[k].label, OpSetVector(ps[k].obj, IntMatVec(Si, ps[k].obj.base, ps[k].obj.d, FALSE)))]
TransformEffects(es, S) ==
    [k \in 1..Len(es) |->
        Item(es[k].label, OpSetVector(es[k].obj, IntMatVec(S, es[k].obj.base, es[k].obj.d, TRUE)))]
TransformGates(gs, S, Si) ==
    [k \in 1..Len(gs) |-> Item(gs[k].label, OpTransform(gs[k].obj, S, Si))]

-----------------------------------------------------------------------------
(* Arguments of the GateSet calls *)

ParameterizationTypes == {"full", "TP", "static"}

\* a numpy array handed to GateSet.__setitem__: a d x 1 vector or a d x d matrix
Array(shape, d, base) == [shape |-> shape, d |-> d, base |-> base]
NoneValue == [shape |-> "None", d |-> 0, base |-> <<>>]

\* the vector and the matrix assigned under a label numbered n; the matrix
\* has the first row of a trace-preserving gate
VecValue(d, n) == Array("vec", d, [k \in 1..d |-> n + k])
GateValue(d, n) ==
    Array("gate", d, [k \in 1..(d * d) |-> IF k = 1 THEN 1 ELSE IF k <= d THEN 0 ELSE n + k])

\* the labels assigned: one prep, one effect, the gates 0..MaxLabel-1, and a
\* label with no known prefix
Labels ==
    {Label(prep_prefix, 0), Label(effect_prefix, 0), Label("X", 0)}
        \cup {Label(gate_prefix, n) : n \in 0..(MaxLabel - 1)}

ValuesFor(label) ==
    IF label.prefix = gate_prefix THEN {GateValue(d, label.n) : d \in 1..MaxGsDim}
    ELSE IF label = identity_label THEN {VecValue(d, 0) : d \in 1..MaxGsDim} \cup {NoneValue}
    ELSE {VecValue(d, label.n) : d \in 1..MaxGsDim}

\* a parameter vector of length n with entries unlike any raw value
RampVec(n) == [k \in 1..n |-> 100 + k]

-----------------------------------------------------------------------------
(* The GateSet calls as actions *)

\* self.preps[label] = value and its like: the ordered dictionary takes the
\* dimension of the first value as the dimension of the GateSet, refuses a
\* value of another dimension, and wraps the array in an operator of its
\* default parameterization.  Only labels not yet in the dictionary are assigned.
DictSetItem(dict, label, value, typ) ==
    IF gs_dim # 0 /\ gs_dim # value.d THEN Raise("ValueError")
    ELSE Return(Append(dict, Item(label, Operator(typ, value.shape, value.d, value.base))))

\* the parameterization of new effect vectors: default_e_param of __init__
default_e_param == IF defaultParam = "TP" THEN "full" ELSE defaultParam

\* the povm_identity setter as an action on this model
SetPovmIdentity(value) ==
    LET r == povm_identity_setter(gs_dim, identityVec, value)
    IN  /\ gs_dim' = r.dim
        /\ identityVec' = r.identityVec
        /\ ret' = Outcome("__setitem__", <<identity_label, value, FALSE>>, r.out)

\* GateSet.__setitem__(label, value)
SetItemWith(flag, label, value) ==
    /\ label # identity_label =>
           /\ Len(preps) + Len(effects) + Len(gates) < MaxOps
           /\ label \notin keys(preps) \cup keys(effects) \cup keys(gates)
    /\ UNCHANGED <<call, basis, defaultParam>>
    /\ IF flag
       THEN /\ ret' = Outcome("__setitem__", <<label, value, flag>>, Raise("KeyError"))
            /\ UNCHANGED <<gs_dim, preps, effects, gates, identityVec>>
       ELSE IF Route(LabelText(label), DefaultPrefixes) = "preps"
       THEN LET r == DictSetItem(preps, label, value, defaultParam)
            IN  /\ ret' = Outcome("__setitem__", <<label, value, flag>>, [r EXCEPT !.val = <<>>])
                /\ preps' = IF r.ok THEN r.val ELSE preps
                /\ gs_dim' = IF r.ok THEN value.d ELSE gs_dim
                /\ UNCHANGED <<effects, gates, identityVec>>
       ELSE IF Route(LabelText(label), DefaultPrefixes) = "effects"
       THEN LET r == DictSetItem(effects, label, value, default_e_param)
            IN  /\ ret' = Outcome("__setitem__", <<label, value, flag>>, [r EXCEPT !.val = <<>>])
                /\ effects' = IF r.ok THEN r.val ELSE effects
                /\ gs_dim' = IF r.ok THEN value.d ELSE gs_dim
                /\ UNCHANGED <<preps, gates, identityVec>>
       ELSE IF Route(LabelText(label), DefaultPrefixes) = "gates"
       THEN LET r == DictSetItem(gates, label, value, defaultParam)
            IN  /\ ret' = Outcome("__setitem__", <<label, value, flag>>, [r EXCEPT !.val = <<>>])
                /\ gates' = IF r.ok THEN r.val ELSE gates
                /\ gs_dim' = IF r.ok THEN value.d ELSE gs_dim
                /\ UNCHANGED <<preps, effects, identityVec>>
       ELSE IF Route(LabelText(label), DefaultPrefixes) = "povm_identity"
       THEN /\ SetPovmIdentity(value)
            /\ UNCHANGED <<preps, effects, gates>>
       ELSE /\ ret' = Outcome("__setitem__", <<label, value, flag>>, Raise("KeyError"))
            /\ UNCHANGED <<gs_dim, preps, effects, gates, identityVec>>

\* GateSet.__setitem__(label, value) under the class's _strict
SetItem(label, value) == SetItemWith(strict, label, value)

\* the sum of the k-th elements of the vectors of a dictionary
RECURSIVE SumOver(_, _)
SumOver(dict, k) ==
    IF dict = <<>> THEN 0 ELSE Head(dict).obj.base[k] + SumOver(Tail(dict), k)

\* dict[label] of an ordered dictionary
DictGetItem(dict, label) ==
    IF label \in keys(dict)
    THEN Return(dict[CHOOSE k \in 1..Len(dict) : dict[k].label = label].obj)
    ELSE Raise("KeyError")

\* self.effects[label]: the remainder label stands for the identity vector
\* minus all the effect vectors, and needs the identity vector
EffectsGetItem(es, identity, label) ==
    IF label # remainder_label THEN DictGetItem(es, label)
    ELSE IF identity.shape = "None" THEN Raise("ValueError")
    ELSE Return(Array("vec", identity.d,
                      [k \in 1..identity.d |->
                          identity.base[k] - SumOver(es, k)]))

\* GateSet.__getitem__(label) with GateSet._strict = flag
getitem(flag, label, ps, es, gs, identity) ==
    IF flag THEN Raise("KeyError")
    ELSE With(Route(LabelText(label), DefaultPrefixes), LAMBDA store :
            IF store = "preps" THEN DictGetItem(ps, label)
            ELSE IF store = "effects" THEN EffectsGetItem(es, identity, label)
            ELSE IF store = "gates" THEN DictGetItem(gs, label)
            ELSE IF store = "povm_identity" THEN Return(identity)
            ELSE Raise("KeyError"))

\* GateSet.__getitem__(label)
GetItemWith(flag, label) ==
    /\ ret' = Outcome("__getitem__", <<label, flag>>,
                      getitem(flag, label, preps, effects, gates, identityVec))
    /\ UNCHANGED <<call, gs_dim, basis, preps, effects, gates, identityVec, defaultParam>>

\* the dictionary with every operator converted to typ
ConvertAll(dict, typ) == [k \in 1..Len(dict) |-> Item(dict[k].label, convert(dict[k].obj, typ))]

\* effects converted to the type asked for, "TP" included
etyp_Same(typ) == typ

\* etyp of set_all_parameterizations: effect vectors are never "TP"
etyp(typ) == IF typ = "TP" THEN "full" ELSE typ

\* GateSet.set_all_parameterizations(parameterization_type); a gate is only
\* converted to "TP" when its first row is [1, 0, ..., 0]
SetAllParameterizations(typ) ==
    /\ typ = "TP" => \A k \in 1..Len(gates) : HasTPFirstRow(gates[k].obj)
    /\ UNCHANGED <<call, gs_dim, basis, identityVec, defaultParam>>
    /\ IF typ \notin ParameterizationTypes
       THEN /\ ret' = Outcome("set_all_parameterizations", <<typ>>, Raise("AssertionError"))
            /\ UNCHANGED <<preps, effects, gates>>
       ELSE /\ gates' = ConvertAll(gates, typ)
            /\ preps' = ConvertAll(preps, typ)
            /\ effects' = ConvertAll(effects, etyp(typ))
            /\ ret' = Outcome("set_all_parameterizations", <<typ>>, Return(<<>>))

\* GateSet.set_basis(basisName, basisDimension)
SetBasis(basisName, basisDimension) ==
    /\ basis' = [name |-> basisName, dim |-> basisDimension]
    /\ ret' = Outcome("set_basis", <<basisName, basisDimension>>, Return(<<>>))
    /\ UNCHANGED <<call, gs_dim, preps, effects, gates, identityVec, defaultParam>>

\* the calls that leave the GateSet as it is
Query(fn, val) ==
    /\ ret' = Outcome(fn, <<>>, Return(val))
    /\ UNCHANGED <<call, gs_dim, basis, preps, effects, gates, identityVec, defaultParam>>

NumParams == Query("num_params", num_params(preps, effects, gates))
NumElements == Query("num_elements", num_elements(preps, effects, gates))
ToVector == Query("to_vector", to_vector(preps, effects, gates))
GetVectorOffsets == Query("get_vector_offsets", get_vector_offsets(preps, effects, gates))
DerivWrtParams == Query("deriv_wrt_params", deriv_wrt_params(preps, effects, gates))

\* GateSet.from_vector(v)
FromVector(v) ==
    LET r == from_vector(preps, effects, gates, basis, v)
    IN  /\ ret' = Outcome("from_vector", v, r.out)
        /\ preps' = r.state.preps
        /\ effects' = r.state.effects
        /\ gates' = r.state.gates
        /\ basis' = r.state.basis
        /\ UNCHANGED <<call, gs_dim, identityVec, defaultParam>>

\* the vectors handed to from_vector: the current parameter vector, and
\* vectors of the right length, one less and one more
FromVectorArgs ==
    {to_vector(preps, effects, gates)}
        \cup {RampVec(n) : n \in {m \in (num_params(preps, effects, gates) - 1)
                                        ..(num_params(preps, effects, gates) + 1) : m >= 0}}

\* a call that leaves the GateSet as it is and has the outcome out
QueryOutcome(fn, out) ==
    /\ ret' = Outcome(fn, <<>>, out)
    /\ UNCHANGED <<call, gs_dim, basis, preps, effects, gates, identityVec, defaultParam>>

\* GateSet.get_nongauge_projector()
GetNongaugeProjector ==
    \E P \in get_nongauge_projector(preps, effects, gates, gs_dim) :
        QueryOutcome("get_nongauge_projector", P)

\* GateSet.num_nongauge_params()
NumNongaugeParams ==
    \E P \in get_nongauge_projector(preps, effects, gates, gs_dim) :
        QueryOutcome("num_nongauge_params", num_nongauge_params(P))

\* GateSet.num_gauge_params()
NumGaugeParams ==
    \E P \in get_nongauge_projector(preps, effects, gates, gs_dim) :
        QueryOutcome("num_gauge_params", num_gauge_params(preps, effects, gates, P))

\* GateSet.__init__(default_param)
Init ==
    /\ defaultParam \in ParameterizationTypes
    /\ gs_dim = 0
    /\ basis = UnknownBasis
    /\ preps = <<>>
    /\ effects = <<>>
    /\ gates = <<>>
    /\ identityVec = NoneValue
    /\ ret = Outcome("__init__", <<defaultParam>>, Return(<<>>))
    /\ call = Args("none", NoneDims, <<>>)

Next ==
    \/ \E label \in Labels : \E value \in ValuesFor(label) : SetItem(label, value)
    \/ \E typ \in ParameterizationTypes \cup {"bogus"} : SetAllParameterizations(typ)
    \/ SetBasis("gm", IntDim(2))
    \/ NumParams
    \/ NumElements
    \/ ToVector
    \/ GetVectorOffsets
    \/ DerivWrtParams
    \/ \E v \in FromVectorArgs : FromVector(v)

Spec == Init /\ [][Next]_vars

(* The life of a GateSet: assignments, gauge transformations, and the models
   derived from it *)

\* the matrix handed to transform as S and as Si: minus the identity, its
\* own inverse
SignFlip(d) == [k \in 1..(d * d) |-> IF (k - 1) \div d = (k - 1) % d THEN -1 ELSE 0]

\* GateSet.transform(S, Si)
Transform(S, Si) ==
    /\ preps' = TransformPreps(preps, Si)
    /\ effects' = TransformEffects(effects, S)
    /\ identityVec' = IF identityVec.shape = "None" THEN identityVec
                      ELSE OpSetVector(identityVec,
                                       IntMatVec(S, identityVec.base, identityVec.d, TRUE))
    /\ gates' = TransformGates(gates, S, Si)
    /\ ret' = Outcome("transform", <<S, Si>>, Return(<<>>))
    /\ UNCHANGED <<call, gs_dim, basis, defaultParam>>

\* GateSet.copy()
Copy ==
    QueryOutcome("copy", copy(preps, effects, gates, gs_dim, basis, identityVec, defaultParam))

\* GateSet.increase_dimension(newDimension)
IncreaseDimension(newDimension) ==
    /\ ret' = Outcome("increase_dimension", <<newDimension>>,
                      increase_dimension(preps, effects, gates, gs_dim, identityVec,
                                         newDimension))
    /\ UNCHANGED <<call, gs_dim, basis, preps, effects, gates, identityVec, defaultParam>>

\* GateSet.decrease_dimension(newDimension)
DecreaseDimension(newDimension) ==
    /\ ret' = Outcome("decrease_dimension", <<newDimension>>,
                      decrease_dimension(preps, effects, gates, gs_dim, identityVec,
                                         newDimension))
    /\ UNCHANGED <<call, gs_dim, basis, preps, effects, gates, identityVec, defaultParam>>

\* the calls that return a new GateSet
DerivingCalls == {"copy", "increase_dimension", "decrease_dimension"}

\* the caller goes on with the GateSet the last call returned
UseReturnedModel ==
    /\ ret.fn \in DerivingCalls
    /\ ret.out.ok
    /\ gs_dim' = ret.out.val.dim
    /\ basis' = ret.out.val.basis
    /\ preps' = ret.out.val.preps
    /\ effects' = ret.out.val.effects
    /\ gates' = ret.out.val.gates
    /\ identityVec' = ret.out.val.identityVec
    /\ defaultParam' = ret.out.val.defaultParam
    /\ ret' = Outcome("returned", <<ret.fn>>, Return(<<>>))
    /\ UNCHANGED call

\* the labels assigned here: one prep, one effect, one gate and the identity
LabelsDim ==
    {Label(prep_prefix, 0), Label(effect_prefix, 0), Label(gate_prefix, 0), identity_label}

NextDim ==
    \/ \E label \in LabelsDim : \E value \in ValuesFor(label) : SetItem(label, value)
    \/ \E typ \in ParameterizationTypes \cup {"bogus"} : SetAllParameterizations(typ)
    \/ FromVector(to_vector(preps, effects, gates))
    \/ Transform(SignFlip(gs_dim), SignFlip(gs_dim))
    \/ NumParams
    \/ GetNongaugeProjector
    \/ Copy
    \/ \E newDimension \in 1..MaxGsDim : IncreaseDimension(newDimension)
    \/ \E newDimension \in 1..MaxGsDim : DecreaseDimension(newDimension)
    \/ UseReturnedModel

\* GateSet(): the default parameterization is "full"
InitDim == Init /\ defaultParam = "full"

SpecDim == InitDim /\ [][NextDim]_vars
-----------------------------------------------------------------------------
(* The gauge calculus on models built by assignment *)

\* the dictionary of n operators of the given shape and parameterization,
\* labelled prefix0, prefix1, ... in this order
StoreOf(prefix, n, typ, shape, d) ==
    [k \in 1..n |->
        Item(Label(prefix, k - 1),
             Operator(typ, shape, d,
                      IF shape = "gate" THEN GateValue(d, k - 1).base
                                        ELSE VecValue(d, k - 1).base))]

\* the models of dimension up to MaxGsDim that GateSet(default_param) holds
\* after up to MaxOps assignments: at most one prep, one effect, MaxLabel gates
GaugeModels ==
    {[defaultParam |-> typ,
      dim |-> IF c[1] + c[2] + c[3] = 0 THEN 0 ELSE d,
      preps |-> StoreOf(prep_prefix, c[1], typ, "vec", d),
      effects |-> StoreOf(effect_prefix, c[2], IF typ = "TP" THEN "full" ELSE typ, "vec", d),
      gates |-> StoreOf(gate_prefix, c[3], typ, "gate", d)] :
        typ \in ParameterizationTypes, d \in 1..MaxGsDim,
        c \in {x \in (0..1) \X (0..1) \X (0..MaxLabel) : x[1] + x[2] + x[3] <= MaxOps}}

InitGauge ==
    \E m \in GaugeModels :
        /\ defaultParam = m.defaultParam
        /\ gs_dim = m.dim
        /\ preps = m.preps
        /\ effects = m.effects
        /\ gates = m.gates
        /\ basis = UnknownBasis
        /\ identityVec = NoneValue
        /\ ret = Outcome("__init__", <<m.defaultParam>>, Return(<<>>))
        /\ call = Args("none", NoneDims, <<>>)

NextGauge ==
    \/ NumParams
    \/ GetNongaugeProjector
    \/ NumNongaugeParams
    \/ NumGaugeParams

SpecGauge == InitGauge /\ [][NextGauge]_vars

(* The basis metadata of a model under the calls that read and write its
   parameters *)

\* GateSet.reset_basis()
ResetBasis ==
    /\ basis' = UnknownBasis
    /\ ret' = Outcome("reset_basis", <<>>, Return(<<>>))
    /\ UNCHANGED <<call, gs_dim, preps, effects, gates, identityVec, defaultParam>>

NextFrame ==
    \/ \E basisName \in {"gm", "std"} : SetBasis(basisName, IntDim(2))
    \/ ResetBasis
    \/ \E v \in FromVectorArgs : FromVector(v)
    \/ ToVector
    \/ GetVectorOffsets
    \/ NumParams
    \/ Transform(SignFlip(gs_dim), SignFlip(gs_dim))

SpecFrame == InitGauge /\ [][NextFrame]_vars

(* Indexing a GateSet by label, with GateSet._strict set or not *)

\* the labels used as keys: one per store, the identity and the remainder
\* label, and one with no known prefix
IndexLabels ==
    {Label(prep_prefix, 0), Label(effect_prefix, 0), Label(gate_prefix, 0),
     identity_label, Label("X", 0)}

NextIndex ==
    \/ \E flag \in BOOLEAN : \E label \in IndexLabels : \E value \in ValuesFor(label) :
           SetItemWith(flag, label, value)
    \/ \E flag \in BOOLEAN : \E label \in IndexLabels \cup {remainder_label} :
           GetItemWith(flag, label)

SpecIndex == Init /\ [][NextIndex]_vars


(* The numerical checks: the imaginary-part check of the basis conversions
   and the rank check of get_nongauge_projector.  The ranks numpy's
   matrix_rank finds under its tolerance are inputs here: round-off decides
   them, and in exact arithmetic they never disagree. *)

\* largest number of parameters and largest rank handed to the rank check
MaxRank == 3

\* the rank checks: rank_P, the rank of Pp, the rank of ret, and nParams
RankArgs ==
    {Args("ranks", NoneDims, x) : x \in (0..MaxRank) \X (0..MaxRank) \X (0..MaxRank) \X (0..MaxRank)}

\* lines 847-855 of get_nongauge_projector on the ranks of call.arg
CallRankCheck ==
    /\ Fresh("ranks")
    /\ call' = Called(call, "rank_check",
                      RankCheck(call.arg[1], call.arg[2], call.arg[3], call.arg[4],
                                ZerosMx(call.arg[4], call.arg[4])))

InitTol ==
    /\ call \in ChgArgs \cup RankArgs
    /\ gs_dim = 0 /\ basis = 0 /\ preps = 0 /\ effects = 0 /\ gates = 0
    /\ identityVec = 0 /\ defaultParam = 0 /\ ret = 0

NextTol ==
    /\ UNCHANGED gsVars
    /\ \/ CallBasisChg_StdToGellMann
       \/ CallBasisChg_StdToPauliProd
       \/ CallRankCheck

SpecTol == InitTol /\ [][NextTol]_vars

(* The calculator: products of gate matrices along a gate string *)

\* the operator stored under label
Lookup(dict, label) == dict[CHOOSE k \in 1..Len(dict) : dict[k].label = label].obj

\* the gate as a d x d array and the vector as a d x 1 array
GateMx(op) == Mx(op.d, op.d, LAMBDA i, j : IntNum(op.base[i * op.d + j + 1]))
ColVec(op) == Mx(op.d, 1, LAMBDA i, j : IntNum(op.base[i + 1]))

\* a is smaller than b, for real rationals
NumLess(a, b) == a.re * b.d < b.re * a.d
NumAbs(a) == IF a.re < 0 THEN Neg(a) ELSE a

\* the magnitude factored out of the running product: its largest entry in
\* absolute value, and never less than 1
Magnitude(X) ==
    With(X, LAMBDA A :
        With({NumAbs(A.a[i][j]) : i \in 0..(A.r - 1), j \in 0..(A.c - 1)} \cup {One}, LAMBDA S :
            CHOOSE x \in S : \A y \in S : ~NumLess(x, y)))

\* what product returns: the matrix, and the scale when one was asked for
ProductResult(scaled, P, scale) == [scaled |-> scaled, product |-> P, scale |-> scale]

\* the loop of the calculator's product over gatestring[k..]: the next gate
\* multiplies the running product G from the left; with bScale the magnitude
\* of G is divided out first and gathered in scale
RECURSIVE ProductLoop(_, _, _, _, _, _)
ProductLoop(gs, gatestring, k, G, scale, bScale) ==
    IF k > Len(gatestring) THEN Return(ProductResult(bScale, G, scale))
    ELSE IF gatestring[k] \notin keys(gs) THEN Raise("KeyError")
    ELSE IF bScale
    THEN With(Magnitude(G), LAMBDA nG :
             ProductLoop(gs, gatestring, k + 1,
                         Dot(GateMx(Lookup(gs, gatestring[k])), Scale(G, Recip(nG))),
                         Mul(scale, nG), bScale))
    ELSE ProductLoop(gs, gatestring, k + 1,
                     Dot(GateMx(Lookup(gs, gatestring[k])), G), scale, bScale)

\* GateSetCalculator.product(gatestring, bScale)
calc_product(gs, dim, gatestring, bScale) ==
    ProductLoop(gs, gatestring, 1, IdentityMx(dim), One, bScale)

\* a calculator that kept the gates the model was constructed with
calc_KeptFromConstruction(dim, gs, ps, es, identity) ==
    [dim |-> dim,
     gates |-> [k \in 1..Len(gs) |->
                   Item(gs[k].label,
                        [gs[k].obj EXCEPT !.base = [e \in 1..(dim * dim) |->
                            IF e = 1 THEN 1 ELSE IF e <= dim THEN 0
                            ELSE gs[k].label.n * e + e - 1]])],
     preps |-> ps, effects |-> es, povm_identity |-> identity]

\* GateSet._calc(): a new calculator on the model's dimension, gates, preps,
\* effects and identity vector as they are at the call
calc(dim, gs, ps, es, identity) ==
    [dim |-> dim, gates |-> gs, preps |-> ps, effects |-> es, povm_identity |-> identity]

\* GateSet.product handing the gate string on without bScale
product_DropScale(ps, es, gs, identity, dim, gatestring, bScale) ==
    With(calc(dim, gs, ps, es, identity), LAMBDA c :
        calc_product(c.gates, c.dim, gatestring, FALSE))

\* GateSet.product(gatestring, bScale)
product(ps, es, gs, identity, dim, gatestring, bScale) ==
    With(calc(dim, gs, ps, es, identity), LAMBDA c :
        calc_product(c.gates, c.dim, gatestring, bScale))

MxAdd(X, Y) == With2(X, Y, LAMBDA A, B : Like(A, LAMBDA i, j : Add(A.a[i][j], B.a[i][j])))

\* the d x d matrix with a one at element e (row-major) and zeros elsewhere,
\* and the d x 1 vector likewise
UnitMx(d, e) == Mx(d, d, LAMBDA i, j : IF i * d + j = e THEN One ELSE Zero)
UnitVec(d, e) == Mx(d, 1, LAMBDA i, j : IF i = e THEN One ELSE Zero)

\* a SPAM label: the labels of a prep and of an effect; the effect of the
\* remainder label is the identity vector minus all the effects
SpamLabel(prepLabel, effectLabel) == [prep |-> prepLabel, effect |-> effectLabel]

RECURSIVE SumMxs(_, _)
SumMxs(mxs, zero) == IF mxs = <<>> THEN zero ELSE MxAdd(Head(mxs), SumMxs(Tail(mxs), zero))

\* the effect vector of spamLabel
EffectVec(es, identity, dim, spamLabel) ==
    IF spamLabel.effect = RemainderLabel
    THEN MxSub(ColVec(identity),
               SumMxs([k \in 1..Len(es) |-> ColVec(es[k].obj)], ZerosMx(dim, 1)))
    ELSE ColVec(Lookup(es, spamLabel.effect))

\* E^T . P . rho
Sandwich(E, P, rho) == Trace(Dot(Transpose(E), Dot(P, rho)))

\* GateSetCalculator.pr(spamLabel, gatestring): Tr(E . product . rho), the
\* scale of the product multiplied back
calc_pr(ps, es, gs, identity, dim, spamLabel, gatestring) ==
    With(calc_product(gs, dim, gatestring, TRUE), LAMBDA r :
        IF ~r.ok THEN r
        ELSE Return(Mul(r.val.scale,
                        Sandwich(EffectVec(es, identity, dim, spamLabel), r.val.product,
                                 ColVec(Lookup(ps, spamLabel.prep))))))

\* the parameters of the model in the order of the parameter vector: for each
\* the dictionary and label of its operator and the element it sets
ParamsOf(kind, dict) ==
    Concat([k \in 1..Len(dict) |->
               [q \in 1..OpNumParams(dict[k].obj) |->
                   [kind |-> kind, label |-> dict[k].label,
                    elem |-> NumFixed(dict[k].obj) + q - 1]]])
ModelParams(ps, es, gs) == ParamsOf("prep", ps) \o ParamsOf("effect", es) \o ParamsOf("gate", gs)

\* the product of the gates gatestring[a..b], the first rightmost
SubProduct(gs, dim, gatestring, a, b) ==
    calc_product(gs, dim, SubSeq(gatestring, a, b), FALSE).val.product

\* GateSetCalculator.dproduct for one parameter: the sum over the positions
\* of the string of the product with the gate at the position replaced by
\* its derivative
dproduct(gs, dim, gatestring, param) ==
    SumMxs([k \in 1..Len(gatestring) |->
               IF param.kind = "gate" /\ gatestring[k] = param.label
               THEN Dot(SubProduct(gs, dim, gatestring, k + 1, Len(gatestring)),
                        Dot(UnitMx(dim, param.elem),
                            SubProduct(gs, dim, gatestring, 1, k - 1)))
               ELSE ZerosMx(dim, dim)],
           ZerosMx(dim, dim))

\* the derivative of the prep and of the effect of spamLabel by a parameter
dPrep(dim, spamLabel, param) ==
    IF param.kind = "prep" /\ param.label = spamLabel.prep THEN UnitVec(dim, param.elem)
    ELSE ZerosMx(dim, 1)
dEffect(dim, spamLabel, param) ==
    IF param.kind # "effect" THEN ZerosMx(dim, 1)
    ELSE IF spamLabel.effect = RemainderLabel THEN Scale(UnitVec(dim, param.elem), IntNum(-1))
    ELSE IF param.label = spamLabel.effect THEN UnitVec(dim, param.elem)
    ELSE ZerosMx(dim, 1)

\* the derivative of Tr(E . P . rho) by param, by the product rule
dSandwich(E, P, rho, dE, dP, drho) ==
    Add(Sandwich(dE, P, rho), Add(Sandwich(E, dP, rho), Sandwich(E, P, drho)))

\* GateSetCalculator.dpr(spamLabel, gatestring): one derivative per parameter
calc_dpr(ps, es, gs, identity, dim, spamLabel, gatestring) ==
    With(calc_product(gs, dim, gatestring, FALSE), LAMBDA r :
        IF ~r.ok THEN r
        ELSE With2(EffectVec(es, identity, dim, spamLabel), ColVec(Lookup(ps, spamLabel.prep)),
                   LAMBDA E, rho :
                 With(ModelParams(ps, es, gs), LAMBDA params :
                     Return([p \in 1..Len(params) |->
                                dSandwich(E, r.val.product, rho,
                                          dEffect(dim, spamLabel, params[p]),
                                          dproduct(gs, dim, gatestring, params[p]),
                                          dPrep(dim, spamLabel, params[p]))]))))

\* GateSet.pr and GateSet.dpr
pr(ps, es, gs, identity, dim, spamLabel, gatestring) ==
    With(calc(dim, gs, ps, es, identity), LAMBDA c :
        calc_pr(c.preps, c.effects, c.gates, c.povm_identity, c.dim, spamLabel, gatestring))
dpr(ps, es, gs, identity, dim, spamLabel, gatestring) ==
    With(calc(dim, gs, ps, es, identity), LAMBDA c :
        calc_dpr(c.preps, c.effects, c.gates, c.povm_identity, c.dim, spamLabel, gatestring))

\* a node of the evaluation tree: the gate string it stands for and the
\* indices of the two earlier nodes whose strings it joins, 0 and 0 in a leaf
Node(str, left, right) == [str |-> str, left |-> left, right |-> right]
NodeIndex(nodes, str) == CHOOSE k \in 1..Len(nodes) : nodes[k].str = str
HasNode(nodes, str) == \E k \in 1..Len(nodes) : nodes[k].str = str

\* the ways a string of two or more labels is cut in two
Factorings == {"head", "last", "middle"}
SplitPoint(str, factoring) ==
    IF factoring = "head" THEN 1
    ELSE IF factoring = "last" THEN Len(str) - 1
    ELSE Len(str) \div 2

\* the tree with a node for str: a string not yet in the tree is cut in two,
\* both parts are put in the tree, and the node joining them is added; a
\* string of one label outside the alphabet, or the empty string without a
\* leaf, cannot be built
RECURSIVE Register(_, _, _)
Register(nodes, str, factoring) ==
    IF ~nodes.ok \/ HasNode(nodes.val, str) THEN nodes
    ELSE IF Len(str) <= 1 THEN Raise("KeyError")
    ELSE With2(SubSeq(str, 1, SplitPoint(str, factoring)),
               SubSeq(str, SplitPoint(str, factoring) + 1, Len(str)), LAMBDA l, r :
             With(Register(Register(nodes, l, factoring), r, factoring), LAMBDA n :
                 IF ~n.ok THEN n
                 ELSE Return(Append(n.val, Node(str, NodeIndex(n.val, l), NodeIndex(n.val, r))))))

RECURSIVE RegisterAll(_, _, _)
RegisterAll(nodes, gatestring_list, factoring) ==
    IF gatestring_list = <<>> THEN nodes
    ELSE RegisterAll(Register(nodes, Head(gatestring_list), factoring),
                     Tail(gatestring_list), factoring)

\* EvalTree.initialize(gateLabels, gatestring_list): a leaf for every entry
\* of gateLabels ("" is the empty string), then the strings of the list
EvalTreeInitialize(gateLabels, gatestring_list, factoring) ==
    With(RegisterAll(Return([k \in 1..Len(gateLabels) |-> Node(gateLabels[k], 0, 0)]),
                     gatestring_list, factoring), LAMBDA n :
        IF ~n.ok THEN n
        ELSE Return([nodes |-> n.val, gatestring_list |-> gatestring_list]))

\* GateSet.bulk_evaltree over the gate labels alone
bulk_evaltree_NoEmptyString(gs, gatestring_list, factoring) ==
    EvalTreeInitialize([k \in 1..Len(gs) |-> <<gs[k].label>>], gatestring_list, factoring)

\* GateSet.bulk_evaltree(gatestring_list): the tree is initialized with
\* [""] + self.gates.keys()
bulk_evaltree(gs, gatestring_list, factoring) ==
    EvalTreeInitialize(<< <<>> >> \o [k \in 1..Len(gs) |-> <<gs[k].label>>],
                       gatestring_list, factoring)

\* the products of the nodes k.. of the tree, computed after those of the
\* nodes before them: a leaf is the identity or a gate, a joining node the
\* product of its right part and its left part
RECURSIVE BulkProducts(_, _, _, _, _)
BulkProducts(gs, dim, nodes, k, prods) ==
    IF k > Len(nodes) THEN prods
    ELSE BulkProducts(gs, dim, nodes, k + 1,
             Append(prods,
                    IF nodes[k].left = 0
                    THEN IF nodes[k].str = <<>> THEN IdentityMx(dim)
                         ELSE GateMx(Lookup(gs, nodes[k].str[1]))
                    ELSE Dot(prods[nodes[k].right], prods[nodes[k].left])))

\* the derivatives of the products of the nodes k.., one matrix per
\* parameter: the product rule at a joining node
RECURSIVE BulkDProducts(_, _, _, _, _, _, _)
BulkDProducts(gs, dim, nodes, params, prods, k, dprods) ==
    IF k > Len(nodes) THEN dprods
    ELSE BulkDProducts(gs, dim, nodes, params, prods, k + 1,
             Append(dprods,
                    [p \in 1..Len(params) |->
                        IF nodes[k].left = 0
                        THEN IF nodes[k].str # <<>> /\ params[p].kind = "gate"
                                  /\ params[p].label = nodes[k].str[1]
                             THEN UnitMx(dim, params[p].elem)
                             ELSE ZerosMx(dim, dim)
                        ELSE MxAdd(Dot(dprods[nodes[k].right][p], prods[nodes[k].left]),
                                   Dot(prods[nodes[k].right], dprods[nodes[k].left][p]))]))

\* GateSetCalculator.bulk_pr(spamLabel, evalTree): one probability per string
\* of the tree's list
calc_bulk_pr(ps, es, gs, identity, dim, spamLabel, evalTree) ==
    With2(BulkProducts(gs, dim, evalTree.nodes, 1, <<>>),
          EffectVec(es, identity, dim, spamLabel), LAMBDA prods, E :
        [i \in 1..Len(evalTree.gatestring_list) |->
            Sandwich(E, prods[NodeIndex(evalTree.nodes, evalTree.gatestring_list[i])],
                     ColVec(Lookup(ps, spamLabel.prep)))])

\* GateSetCalculator.bulk_dpr(spamLabel, evalTree): per string, one
\* derivative per parameter
calc_bulk_dpr(ps, es, gs, identity, dim, spamLabel, evalTree) ==
    With2(BulkProducts(gs, dim, evalTree.nodes, 1, <<>>), ModelParams(ps, es, gs),
          LAMBDA prods, params :
        With2(BulkDProducts(gs, dim, evalTree.nodes, params, prods, 1, <<>>),
              EffectVec(es, identity, dim, spamLabel), LAMBDA dprods, E :
            [i \in 1..Len(evalTree.gatestring_list) |->
                With(NodeIndex(evalTree.nodes, evalTree.gatestring_list[i]), LAMBDA n :
                    [p \in 1..Len(params) |->
                        dSandwich(E, prods[n], ColVec(Lookup(ps, spamLabel.prep)),
                                  dEffect(dim, spamLabel, params[p]), dprods[n][p],
                                  dPrep(dim, spamLabel, params[p]))])]))

\* GateSet.bulk_pr and GateSet.bulk_dpr
bulk_pr(ps, es, gs, identity, dim, spamLabel, evalTree) ==
    With(calc(dim, gs, ps, es, identity), LAMBDA c :
        calc_bulk_pr(c.preps, c.effects, c.gates, c.povm_identity, c.dim, spamLabel, evalTree))
bulk_dpr(ps, es, gs, identity, dim, spamLabel, evalTree) ==
    With(calc(dim, gs, ps, es, identity), LAMBDA c :
        calc_bulk_dpr(c.preps, c.effects, c.gates, c.povm_identity, c.dim, spamLabel, evalTree))

\* the gate strings handed to the calculator have up to MaxStrLen labels
MaxStrLen == 3

\* the entries of the gate numbered n: the first row of a trace-preserving
\* gate, and no two of dimension 2 or more commute
CalcGateValue(d, n) ==
    [k \in 1..(d * d) |-> IF k = 1 THEN 1 ELSE IF k <= d THEN 0 ELSE n * k + k - 1]

\* the models the calculator is asked about: GateSet(typ) of dimension d with
\* rho0, E0, an identity vector and the gates G0..G(n-1) assigned
CalcModels ==
    {[defaultParam |-> typ,
      dim |-> d,
      preps |-> StoreOf(prep_prefix, 1, typ, "vec", d),
      effects |-> StoreOf(effect_prefix, 1, IF typ = "TP" THEN "full" ELSE typ, "vec", d),
      gates |-> [k \in 1..n |-> Item(Label(gate_prefix, k - 1),
                                     Operator(typ, "gate", d, CalcGateValue(d, k - 1)))],
      identityVec |-> Operator("static", "vec", d, [k \in 1..d |-> IF k = 1 THEN 3 ELSE 0])] :
        typ \in ParameterizationTypes, d \in 1..MaxGsDim, n \in 0..MaxLabel}

\* the gate labels a caller may name: those of the model and one more
CalcLabels == {Label(gate_prefix, n) : n \in 0..MaxLabel}

\* the tuples over S of length 0..n
RECURSIVE TuplesUpTo(_, _)
TuplesUpTo(S, n) ==
    IF n = 0 THEN {<<>>}
    ELSE With(TuplesUpTo(S, n - 1), LAMBDA T :
             T \cup {Append(t, x) : t \in {u \in T : Len(u) = n - 1}, x \in S})

GateStrings == TuplesUpTo(CalcLabels, MaxStrLen)

\* the calls that change the operators of a model
MutatingCalls == {"from_vector", "transform", "__setitem__", "set_all_parameterizations"}

\* no query has been made on the model as it is now: each query is looked at
\* on its own
NothingCalled == ret.fn \in {"__init__"} \cup MutatingCalls

\* GateSet.product(gatestring, bScale)
Product(gatestring, bScale) ==
    /\ NothingCalled
    /\ ret' = Outcome("product", <<gatestring, bScale>>,
                      product(preps, effects, gates, identityVec, gs_dim, gatestring, bScale))
    /\ UNCHANGED <<call, gs_dim, basis, preps, effects, gates, identityVec, defaultParam>>

\* the SPAM labels asked about: rho0 with E0, and rho0 with the remainder
SpamLabels ==
    {SpamLabel(Label(prep_prefix, 0), Label(effect_prefix, 0)),
     SpamLabel(Label(prep_prefix, 0), RemainderLabel)}

\* the lists handed to bulk_evaltree hold up to MaxStrings gate strings over
\* the labels G0..G(MaxLabel-1)
MaxStrings == 2
GateStringLists ==
    TuplesUpTo(TuplesUpTo({Label(gate_prefix, n) : n \in 0..(MaxLabel - 1)}, MaxStrLen),
               MaxStrings)

\* GateSet.pr(spamLabel, gatestring)
Pr(spamLabel, gatestring) ==
    /\ NothingCalled
    /\ ret' = Outcome("pr", <<spamLabel, gatestring>>,
                      pr(preps, effects, gates, identityVec, gs_dim, spamLabel, gatestring))
    /\ UNCHANGED <<call, gs_dim, basis, preps, effects, gates, identityVec, defaultParam>>

\* GateSet.dpr(spamLabel, gatestring)
Dpr(spamLabel, gatestring) ==
    /\ NothingCalled
    /\ ret' = Outcome("dpr", <<spamLabel, gatestring>>,
                      dpr(preps, effects, gates, identityVec, gs_dim, spamLabel, gatestring))
    /\ UNCHANGED <<call, gs_dim, basis, preps, effects, gates, identityVec, defaultParam>>

\* GateSet.bulk_evaltree(gatestring_list); how the tree factors the strings
\* is its own choice
BulkEvalTree(gatestring_list) ==
    \E factoring \in Factorings :
        /\ NothingCalled
        /\ ret' = Outcome("bulk_evaltree", gatestring_list,
                          bulk_evaltree(gates, gatestring_list, factoring))
        /\ UNCHANGED <<call, gs_dim, basis, preps, effects, gates, identityVec, defaultParam>>

\* GateSet.bulk_pr(spamLabel, evalTree) on the tree bulk_evaltree returned
BulkPr(spamLabel) ==
    /\ ret.fn = "bulk_evaltree"
    /\ ret.out.ok
    /\ ret' = Outcome("bulk_pr", <<spamLabel, ret.out.val>>,
                      Return(bulk_pr(preps, effects, gates, identityVec, gs_dim,
                                     spamLabel, ret.out.val)))
    /\ UNCHANGED <<call, gs_dim, basis, preps, effects, gates, identityVec, defaultParam>>

\* GateSet.bulk_dpr(spamLabel, evalTree) on the tree bulk_evaltree returned
BulkDpr(spamLabel) ==
    /\ ret.fn = "bulk_evaltree"
    /\ ret.out.ok
    /\ ret' = Outcome("bulk_dpr", <<spamLabel, ret.out.val>>,
                      Return(bulk_dpr(preps, effects, gates, identityVec, gs_dim,
                                      spamLabel, ret.out.val)))
    /\ UNCHANGED <<call, gs_dim, basis, preps, effects, gates, identityVec, defaultParam>>

InitCalc ==
    \E m \in CalcModels :
        /\ defaultParam = m.defaultParam
        /\ gs_dim = m.dim
        /\ preps = m.preps
        /\ effects = m.effects
        /\ gates = m.gates
        /\ basis = UnknownBasis
        /\ identityVec = m.identityVec
        /\ ret = Outcome("__init__", <<m.defaultParam>>, Return(<<>>))
        /\ call = Args("none", NoneDims, <<>>)

NextCalc ==
    \/ \E gatestring \in GateStrings : \E bScale \in BOOLEAN : Product(gatestring, bScale)
    \/ \E spamLabel \in SpamLabels : \E gatestring \in GateStrings : Pr(spamLabel, gatestring)
    \/ \E spamLabel \in SpamLabels : \E gatestring \in GateStrings : Dpr(spamLabel, gatestring)
    \/ \E gatestring_list \in GateStringLists : BulkEvalTree(gatestring_list)
    \/ \E spamLabel \in SpamLabels : BulkPr(spamLabel)
    \/ \E spamLabel \in SpamLabels : BulkDpr(spamLabel)

SpecCalc == InitCalc /\ [][NextCalc]_vars

(* The calculator on a model that changes between the queries *)

\* a parameter vector of length n with small entries
FreshVec(n) == [k \in 1..n |-> 1 + (k % 3)]

\* the gate strings and the list of gate strings asked about
FreshStrings ==
    {<<>>, <<Label(gate_prefix, 0)>>, <<Label(gate_prefix, 0), Label(gate_prefix, 1)>>,
     <<Label(gate_prefix, 1), Label(gate_prefix, 0), Label(gate_prefix, 0)>>}
FreshLists ==
    {<<<<Label(gate_prefix, 0), Label(gate_prefix, 1)>>,
       <<Label(gate_prefix, 1), Label(gate_prefix, 0), Label(gate_prefix, 0)>>>>}

NextFresh ==
    \/ FromVector(FreshVec(num_params(preps, effects, gates)))
    \/ Transform(SignFlip(gs_dim), SignFlip(gs_dim))
    \/ \E n \in 0..(MaxLabel - 1) :
           SetItem(Label(gate_prefix, n), GateValue(gs_dim, n))
    \/ \E typ \in ParameterizationTypes : SetAllParameterizations(typ)
    \/ \E gatestring \in FreshStrings : \E bScale \in BOOLEAN : Product(gatestring, bScale)
    \/ \E spamLabel \in SpamLabels : \E gatestring \in FreshStrings : Pr(spamLabel, gatestring)
    \/ \E spamLabel \in SpamLabels : \E gatestring \in FreshStrings : Dpr(spamLabel, gatestring)
    \/ \E gatestring_list \in FreshLists : BulkEvalTree(gatestring_list)
    \/ \E spamLabel \in SpamLabels : BulkPr(spamLabel)
    \/ \E spamLabel \in SpamLabels : BulkDpr(spamLabel)

SpecFresh == InitCalc /\ [][NextFresh]_vars

-----------------------------------------------------------------------------
(* drivers/longsequence.py: do_long_sequence_gst from the iterative fit on.
   The variable call holds the position in the function, its arguments and
   its local names; a list is a reference into the heap of lists, so that two
   names bound to one list see each other's assignments. *)

\* most gate string lists (and maximum lengths) handed to the function
MaxLists == 3

\* the k-th model the iterative fit returns (returnAll = True gives one model
\* per gate string list), and the model a gauge optimization returns for gs
IterativeEstimate(objective, k) == <<objective, k>>
optimize_gauge(gs, toGetTo) == Append(gs, toGetTo)

\* the arguments: objective, gaugeOptToCPTP, len(maxLengths), len(lsgstLists)
DriverArgs(objective, gaugeOptToCPTP, nMaxLengths, nLists) ==
    [fn |-> "do_long_sequence_gst", pc |-> "fit",
     objective |-> objective, gaugeOptToCPTP |-> gaugeOptToCPTP,
     maxLengths |-> nMaxLengths, lsgstLists |-> nLists,
     heap |-> <<>>, gs_lsgst_list |-> 0, go_gs_lsgst_list |-> 0, i |-> 0,
     results |-> <<>>, out |-> Return(<<>>)]

\* lines 197-213: gs_lsgst_list = do_iterative_mc2gst / do_iterative_mlgst
IterativeFit ==
    /\ call.pc = "fit"
    /\ call' = IF call.objective \in {"chi2", "logl"}
               THEN [call EXCEPT
                        !.heap = <<[k \in 1..call.lsgstLists |->
                                      IterativeEstimate(call.objective, k)]>>,
                        !.gs_lsgst_list = 1,
                        !.pc = "gaugeopt"]
               ELSE [call EXCEPT !.out = Raise("ValueError"), !.pc = "done"]

\* go_gs_lsgst_list = gs_lsgst_list: the same list under a second name
go_gs_lsgst_list_Alias(c) == [c EXCEPT !.go_gs_lsgst_list = c.gs_lsgst_list]

\* lines 217-221: with gaugeOptToCPTP a list comprehension makes a new list
\* of models gauge optimized to CPTP, without it go_gs_lsgst_list is bound
\* to the list gs_lsgst_list names
GaugeOptToCPTP ==
    /\ call.pc = "gaugeopt"
    /\ call' = [(IF call.gaugeOptToCPTP
                 THEN [call EXCEPT
                          !.heap = Append(call.heap,
                                      [k \in 1..Len(call.heap[call.gs_lsgst_list]) |->
                                          optimize_gauge(call.heap[call.gs_lsgst_list][k],
                                                         "CPTP")]),
                          !.go_gs_lsgst_list = Len(call.heap) + 1]
                 ELSE go_gs_lsgst_list_Alias(call))
                EXCEPT !.pc = "loop", !.i = 0]

\* lines 223-232, one pass of the loop: go_gs_lsgst_list[i] is replaced by
\* the model gauge optimized to the target, kept in CP when it is in CP
\* (sum_of_negative_choi_evals(gs) < 1e-8, either way for a fitted model)
GaugeOptToTarget ==
    /\ call.pc = "loop"
    /\ call.i < Len(call.heap[call.go_gs_lsgst_list])
    /\ \E inCP \in BOOLEAN :
           call' = [call EXCEPT
                       !.heap[call.go_gs_lsgst_list][call.i + 1] =
                           optimize_gauge(@, IF call.gaugeOptToCPTP /\ inCP
                                             THEN "target, constrainToCP"
                                             ELSE "target"),
                       !.i = call.i + 1]

\* lines 236-248: the Results object is handed go_gs_lsgst_list and, last,
\* gs_lsgst_list; then the lengths are asserted and the Results returned
ReturnResults ==
    /\ call.pc = "loop"
    /\ call.i = Len(call.heap[call.go_gs_lsgst_list])
    /\ call' = [call EXCEPT
                   !.results = [go_gs_lsgst_list |-> call.heap[call.go_gs_lsgst_list],
                                gs_lsgst_list |-> call.heap[call.gs_lsgst_list]],
                   !.out = IF call.maxLengths = call.lsgstLists
                              /\ call.lsgstLists = Len(call.heap[call.go_gs_lsgst_list])
                           THEN Return(<<>>) ELSE Raise("AssertionError"),
                   !.pc = "done"]

InitDriver ==
    /\ call \in {DriverArgs(objective, gaugeOptToCPTP, nMaxLengths, nLists) :
                    objective \in {"chi2", "logl", "other"}, gaugeOptToCPTP \in BOOLEAN,
                    nMaxLengths \in 1..MaxLists, nLists \in 1..MaxLists}
    /\ gs_dim = 0 /\ basis = 0 /\ preps = 0 /\ effects = 0 /\ gates = 0
    /\ identityVec = 0 /\ defaultParam = 0 /\ ret = 0

NextDriver ==
    /\ UNCHANGED gsVars
    /\ \/ IterativeFit
       \/ GaugeOptToCPTP
       \/ GaugeOptToTarget
       \/ ReturnResults

SpecDriver == InitDriver /\ [][NextDriver]_vars

-----------------------------------------------------------------------------
(* report/table.py: ReportTable.  call holds the table: _columnNames, _rows,  *)
(* the rowData of the addrow calls made so far, and the outcome of the last   *)
(* call.  A Python value is a record of its type and content.                 *)

MaxRows == 3
MaxRowLen == 2

PyNone == [type |-> "NoneType", s |-> "", n |-> 0]
PyStr(text) == [type |-> "str", s |-> text, n |-> 0]
PyIndex(i) == [type |-> "int", s |-> "", n |-> i]

\* the values of row elements, keys and column names
PyValues == {PyNone, PyStr("a"), PyStr("b")}
RowDatas == UNION {[1..len -> PyValues] : len \in 0..MaxRowLen}
PyIndexes == {PyNone} \cup {PyIndex(i) : i \in (0 - 1)..MaxRows}
Formats == {"latex", "html", "py", "ppt", "bogus"}

\* __init__(colHeadings, formatters) with formatters not None and no customHeader
ReportTable(colHeadings) ==
    [fn |-> "ReportTable", columnNames |-> colHeadings, customHeadings |-> PyNone,
     rows |-> <<>>, addrowCalls |-> <<>>,
     out |-> Outcome("__init__", <<colHeadings>>, Return(PyNone))]

\* addrow: self._rows.append( (rowData, formatters) )
addrow(t, rowData, formatters) ==
    [t EXCEPT !.rows = Append(t.rows, <<rowData, formatters>>)]

\* for row_data,formatters in self._rows: if len(row_data) > 0 and
\* row_data[0] == key: the position of the row the loop returns from, 0 when
\* the loop ends
RowLoop_LastMatch(rows, key) ==
    With({k \in 1..Len(rows) : Len(rows[k][1]) > 0 /\ rows[k][1][1] = key}, LAMBDA found :
        IF found = {} THEN 0 ELSE CHOOSE k \in found : \A j \in found : j <= k)

RowLoop(rows, key) ==
    With({k \in 1..Len(rows) : Len(rows[k][1]) > 0 /\ rows[k][1][1] = key}, LAMBDA found :
        IF found = {} THEN 0 ELSE CHOOSE k \in found : \A j \in found : k <= j)

\* { key:val for key,val in zip(names, row_data) }: a later pair replaces an
\* earlier one with the same key
ZipDict(names, row_data) ==
    With(IF Len(names) < Len(row_data) THEN Len(names) ELSE Len(row_data), LAMBDA len :
        [c \in {names[j] : j \in 1..len} |->
            row_data[CHOOSE j \in 1..len : names[j] = c /\ \A i \in 1..len : names[i] = c => i <= j]])

ReportTable_getitem(t, key) ==
    With(RowLoop(t.rows, key), LAMBDA k :
        IF k = 0 THEN Raise("KeyError")
        ELSE Return(ZipDict(t.columnNames, t.rows[k][1])))

ReportTable_len(t) == Len(t.rows)

\* [ d[0] for (d,f) in self._rows if len(d) > 0 ]
RECURSIVE ReportTable_keys(_)
ReportTable_keys(t) ==
    IF t.rows = <<>> THEN <<>>
    ELSE With(t.rows[Len(t.rows)][1], LAMBDA d :
             With(ReportTable_keys([t EXCEPT !.rows = SubSeq(t.rows, 1, Len(t.rows) - 1)]),
                  LAMBDA earlier : IF Len(d) > 0 THEN Append(earlier, d[1]) ELSE earlier))

\* key in self.keys()
ReportTable_contains(t, key) == \E k \in 1..Len(ReportTable_keys(t)) : ReportTable_keys(t)[k] = key

has_key(t, key) == \E k \in 1..Len(ReportTable_keys(t)) : ReportTable_keys(t)[k] = key

ReportTable_row(t, key, index) ==
    IF key # PyNone
    THEN IF index # PyNone THEN Raise("ValueError")
         ELSE With(RowLoop(t.rows, key), LAMBDA k :
                  IF k = 0 THEN Raise("KeyError") ELSE Return(t.rows[k][1]))
    ELSE IF index # PyNone
    THEN IF 0 <= index.n /\ index.n < ReportTable_len(t)
         THEN Return(t.rows[index.n + 1][1])
         ELSE Raise("ValueError")
    ELSE Raise("ValueError")

\* [ d[iCol] for (d,f) in self._rows ]: IndexError on a row without column iCol
ColumnOf(t, iCol) ==
    IF \E k \in 1..Len(t.rows) : Len(t.rows[k][1]) <= iCol THEN Raise("IndexError")
    ELSE Return([k \in 1..Len(t.rows) |-> t.rows[k][1][iCol + 1]])

ReportTable_col(t, key, index) ==
    IF key # PyNone
    THEN IF index # PyNone THEN Raise("ValueError")
         ELSE IF \E j \in 1..Len(t.columnNames) : t.columnNames[j] = key
         THEN ColumnOf(t, (CHOOSE j \in 1..Len(t.columnNames) :
                              /\ t.columnNames[j] = key
                              /\ \A i \in 1..Len(t.columnNames) : t.columnNames[i] = key => j <= i) - 1)
         ELSE Raise("KeyError")
    ELSE IF index # PyNone
    THEN IF 0 <= index.n /\ index.n < Len(t.columnNames)
         THEN ColumnOf(t, index.n)
         ELSE Raise("ValueError")
    ELSE Raise("ValueError")

num_rows(t) == Len(t.rows)

\* _tf.formatList(rowData, formatters, fmt): one formatted element for every
\* element of rowData
formatList(rowData, formatters, fmt) ==
    [k \in 1..Len(rowData) |-> [formatter |-> formatters[k], fmt |-> fmt, el |-> rowData[k]]]

\* render(fmt): the formatted rows that are not empty, ValueError for a format
\* that none of the four branches handles
render(t, fmt) ==
    IF fmt \in {"latex", "html", "py", "ppt"}
    THEN Return([fmt |-> fmt,
                 rowData |-> SelectSeq([k \in 1..Len(t.rows) |->
                                           formatList(t.rows[k][1], t.rows[k][2], fmt)],
                                       LAMBDA formatted_rowData : Len(formatted_rowData) > 0)])
    ELSE Raise("ValueError")

TableCalled(t, fn, arg, out) == [t EXCEPT !.out = Outcome(fn, arg, out)]

AddRow ==
    /\ Len(call.rows) < MaxRows
    /\ \E rowData \in RowDatas :
         call' = [TableCalled(addrow(call, rowData, [k \in 1..Len(rowData) |-> "Normal"]),
                         "addrow", <<rowData>>, Return(PyNone))
                    EXCEPT !.addrowCalls = Append(@, rowData)]

TableGetItem ==
    \E key \in PyValues :
        call' = TableCalled(call, "__getitem__", <<key>>, ReportTable_getitem(call, key))

TableLen == call' = TableCalled(call, "__len__", <<>>, Return(ReportTable_len(call)))

TableContains ==
    \E key \in PyValues :
        call' = TableCalled(call, "__contains__", <<key>>, Return(ReportTable_contains(call, key)))

TableKeys == call' = TableCalled(call, "keys", <<>>, Return(ReportTable_keys(call)))

TableHasKey ==
    \E key \in PyValues :
        call' = TableCalled(call, "has_key", <<key>>, Return(has_key(call, key)))

TableRow ==
    \E key \in PyValues, index \in PyIndexes :
        call' = TableCalled(call, "row", <<key, index>>, ReportTable_row(call, key, index))

TableCol ==
    \E key \in PyValues, index \in PyIndexes :
        call' = TableCalled(call, "col", <<key, index>>, ReportTable_col(call, key, index))

TableNumRows == call' = TableCalled(call, "num_rows", <<>>, Return(num_rows(call)))

TableRender ==
    \E fmt \in Formats :
        call' = TableCalled(call, "render", <<fmt>>, render(call, fmt))

InitTable ==
    /\ call \in {ReportTable(colHeadings) :
                    colHeadings \in {<<PyStr("a")>>, <<PyStr("a"), PyStr("b")>>}}
    /\ gs_dim = 0 /\ basis = 0 /\ preps = 0 /\ effects = 0 /\ gates = 0
    /\ identityVec = 0 /\ defaultParam = 0 /\ ret = 0

NextTable ==
    /\ UNCHANGED gsVars
    /\ \/ AddRow
       \/ TableGetItem
       \/ TableLen
       \/ TableContains
       \/ TableKeys
       \/ TableHasKey
       \/ TableRow
       \/ TableCol
       \/ TableNumRows
       \/ TableRender

SpecTable == InitTable /\ [][NextTable]_vars

-----------------------------------------------------------------------------
(* Properties of the GateSet parameter vector *)

\* the items of the three dictionaries in the order preps, effects, gates
ChainedItems == preps \o effects \o gates

\* the indices start..end-1 of a half-open range
RangeOf(rng) == {i \in 0..num_params(preps, effects, gates) : rng[1] <= i /\ i < rng[2]}

\* offs gives every label of items a range of its operator's num_params(),
\* the ranges laid end to end from 0 to num_params(), pairwise disjoint, and
\* the slice v[start:end] holds the parameters of the operator
RangesSliceVector(offs, items, v) ==
    /\ DOMAIN offs = {items[k].label : k \in 1..Len(items)}
    /\ \A k \in 1..Len(items) :
           /\ offs[items[k].label][2] - offs[items[k].label][1] = OpNumParams(items[k].obj)
           /\ offs[items[k].label][1] >= 0
           /\ PySlice(v, offs[items[k].label][1], offs[items[k].label][2])
                  = OpToVector(items[k].obj)
    /\ Len(items) > 0 =>
           /\ offs[items[1].label][1] = 0
           /\ offs[items[Len(items)].label][2] = num_params(preps, effects, gates)
    /\ \A k \in 1..(Len(items) - 1) :
           offs[items[k].label][2] = offs[items[k + 1].label][1]
    /\ \A j, k \in 1..Len(items) :
           j # k => RangeOf(offs[items[j].label]) \cap RangeOf(offs[items[k].label]) = {}

\* C1: the ranges get_vector_offsets() returns have the length of each
\* operator's num_params(), are contiguous from 0 to num_params() in the order
\* preps, effects, gates, are pairwise disjoint, and are the slices to_vector()
\* writes; after a from_vector(v) that succeeded every operator holds the
\* slice of v at its range.
C1_VectorOffsets ==
    /\ ret.fn = "get_vector_offsets" =>
           /\ ret.out.ok
           /\ RangesSliceVector(ret.out.val, ChainedItems, to_vector(preps, effects, gates))
    /\ (ret.fn = "from_vector" /\ ret.out.ok) =>
           RangesSliceVector(get_vector_offsets(preps, effects, gates), ChainedItems, ret.arg)

\* get_vector_offsets() has answered for a model with a prep, an effect and
\* a gate, all with
\* parameters, the effect and the gate of different lengths
C1_Witness ==
    /\ ret.fn = "get_vector_offsets"
    /\ Len(preps) > 0 /\ Len(effects) > 0 /\ Len(gates) > 0
    /\ \A k \in 1..Len(ChainedItems) : OpNumParams(ChainedItems[k].obj) > 0
    /\ OpNumParams(effects[1].obj) # OpNumParams(gates[1].obj)

\* a step that is the call from_vector(to_vector())
IsRoundTripStep ==
    /\ ret'.fn = "from_vector"
    /\ ret'.arg = to_vector(preps, effects, gates)

\* every operator is parameterized "full"
AllFull == \A k \in 1..Len(ChainedItems) : ChainedItems[k].obj.typ = "full"

\* C2: from_vector called with the vector to_vector() returns succeeds, leaves
\* the raw value of every prep, effect and gate as it was, and to_vector()
\* afterwards returns the same vector; num_params() of a model whose operators
\* are all "full" is num_elements().
C2_RoundTripIdentity ==
    [][/\ IsRoundTripStep =>
              /\ ret'.out.ok
              /\ preps' = preps /\ effects' = effects /\ gates' = gates
              /\ to_vector(preps', effects', gates') = ret'.arg
       /\ (ret'.fn = "num_params" /\ AllFull') =>
              ret'.out.val = num_elements(preps', effects', gates')]_vars

\* from_vector has been given the parameter vector of a model of three
\* operators, a "TP" gate with fixed elements among them
C2_Witness ==
    /\ ret.fn = "from_vector" /\ ret.out.ok
    /\ ret.arg = to_vector(preps, effects, gates)
    /\ Len(ChainedItems) = MaxOps
    /\ Len(ret.arg) > 0
    /\ \A i \in 1..Len(ret.arg) : ret.arg[i] < 100
    /\ \E k \in 1..Len(gates) : gates[k].obj.typ = "TP" /\ gates[k].obj.d > 1

\* C3: from_vector(v) with len(v) other than num_params() raises the error of
\* its length check and leaves every operator, the dimension and the basis
\* name and dimension as they were.
C3_WrongLengthRejected ==
    [][(ret'.fn = "from_vector" /\ Len(ret'.arg) # num_params(preps, effects, gates)) =>
           /\ ret'.out = Raise("AssertionError")
           /\ UNCHANGED <<preps, effects, gates, basis, gs_dim, identityVec>>]_vars

\* from_vector has refused a vector one too long for a model with a basis set
\* and operators that have parameters
C3_Witness ==
    /\ ret.fn = "from_vector"
    /\ ret.out = Raise("AssertionError")
    /\ Len(ret.arg) = num_params(preps, effects, gates) + 1
    /\ num_params(preps, effects, gates) > 1
    /\ Len(ChainedItems) > 1
    /\ basis.name = "gm"

\* the number of raw elements of the operators before item k of the chain
ElementsBefore(items, k) == SumInts([m \in 1..(k - 1) |-> OpSize(items[m].obj)])

\* the item of the chain whose element rows hold row e and whose parameter
\* columns, as offs reports them, hold column p; 0 when there is none
BlockItem(items, offs, e, p) ==
    With({k \in 1..Len(items) :
             /\ ElementsBefore(items, k) < e
             /\ e <= ElementsBefore(items, k) + OpSize(items[k].obj)
             /\ offs[items[k].label][1] < p
             /\ p <= offs[items[k].label][2]},
         LAMBDA ks : IF ks = {} THEN 0 ELSE CHOOSE k \in ks : TRUE)

\* C14: deriv_wrt_params() returns num_elements() rows of num_params()
\* columns; the entry in the element rows and the parameter columns (the
\* range get_vector_offsets reports) of an operator is the entry of that
\* operator's own deriv_wrt_params(), every other entry is zero; for a model
\* whose operators are all "full" the matrix is the square identity.
C14_DerivBlocks ==
    ret.fn = "deriv_wrt_params" =>
        With2(ret.out.val, get_vector_offsets(preps, effects, gates), LAMBDA deriv, offs :
            /\ ret.out.ok
            /\ Len(deriv) = num_elements(preps, effects, gates)
            /\ \A e \in 1..Len(deriv) :
                   /\ Len(deriv[e]) = num_params(preps, effects, gates)
                   /\ \A p \in 1..Len(deriv[e]) :
                          With(BlockItem(ChainedItems, offs, e, p), LAMBDA k :
                              deriv[e][p] =
                                  IF k = 0 THEN 0
                                  ELSE OpDerivWrtParams(ChainedItems[k].obj)
                                           [e - ElementsBefore(ChainedItems, k)]
                                           [p - offs[ChainedItems[k].label][1]])
            /\ AllFull =>
                   /\ num_elements(preps, effects, gates) = num_params(preps, effects, gates)
                   /\ \A e \in 1..Len(deriv) : \A p \in 1..Len(deriv) :
                          deriv[e][p] = IF e = p THEN 1 ELSE 0)

\* deriv_wrt_params() has answered for a model of a prep, an effect and a "TP"
\* gate, the operators with fewer parameters than elements
C14_Witness ==
    /\ ret.fn = "deriv_wrt_params"
    /\ Len(preps) > 0 /\ Len(effects) > 0 /\ Len(gates) > 0
    /\ gates[1].obj.typ = "TP" /\ gates[1].obj.d > 1
    /\ preps[1].obj.typ = "TP"
    /\ num_params(preps, effects, gates) > 0

\* the non-gauge projectors get_nongauge_projector() can return in this state
ReturnedProjectors ==
    {P.val : P \in {Q \in get_nongauge_projector(preps, effects, gates, gs_dim) : Q.ok}}

\* C17: a matrix R that get_nongauge_projector() returns is num_params() x
\* num_params(), the gauge projector I - R is idempotent, and the ranks of
\* I - R and R add up to num_params(); num_nongauge_params() is the rank of R
\* and num_gauge_params() is num_params() less that rank.
C17_GaugeProjector ==
    /\ (ret.fn = "get_nongauge_projector" /\ ret.out.ok) =>
           With2(ret.out.val, num_params(preps, effects, gates), LAMBDA R, n :
               With(MxSub(IdentityMx(n), R), LAMBDA Pp :
                   /\ HasShape(R, n, n)
                   /\ Dot(Pp, Pp) = Pp
                   /\ MatrixRank(Pp) + MatrixRank(R) = n))
    /\ (ret.fn = "num_nongauge_params" /\ ret.out.ok) =>
           \E R \in ReturnedProjectors : ret.out.val = MatrixRank(R)
    /\ (ret.fn = "num_gauge_params" /\ ret.out.ok) =>
           \E R \in ReturnedProjectors :
               ret.out.val = num_params(preps, effects, gates) - MatrixRank(R)

\* get_nongauge_projector() has returned a projector of a model with both
\* gauge and non-gauge parameters
C17_Witness ==
    /\ ret.fn = "get_nongauge_projector"
    /\ ret.out.ok
    /\ MatrixRank(ret.out.val) > 0
    /\ MatrixRank(ret.out.val) < num_params(preps, effects, gates)
    /\ Len(gates) > 0 /\ gs_dim > 1

-----------------------------------------------------------------------------
(* Properties of the dimension and of the identity vector *)

\* the step is a call on the GateSet, and not the caller taking up another one
IsCallStep == ret'.fn # "returned"

\* the step assigns a vector to the identity label
AssignsIdentity ==
    /\ ret'.fn = "__setitem__"
    /\ ret'.arg[1] = identity_label
    /\ ret'.arg[2].shape # "None"

\* C15: the dimension is set by the first assignment, to the dimension of the
\* value assigned, and no later call changes it: no assignment, no
\* povm_identity = None, from_vector, transform, set_all_parameterizations or
\* get_nongauge_projector.  Assigning an identity vector of another length
\* fails with a ValueError and leaves the dimension and the identity vector as
\* they were.  increase_dimension and decrease_dimension return a model of the
\* new dimension and leave the dimension of the model they are called on.
C15_DimensionFixed ==
    [][/\ (IsCallStep /\ gs_dim # 0) => gs_dim' = gs_dim
       /\ (IsCallStep /\ gs_dim = 0 /\ gs_dim' # 0) =>
              /\ ret'.fn = "__setitem__"
              /\ ret'.out.ok
              /\ gs_dim' = ret'.arg[2].d
       /\ (AssignsIdentity /\ gs_dim # 0 /\ ret'.arg[2].d # gs_dim) =>
              /\ ret'.out = Raise("ValueError")
              /\ UNCHANGED <<gs_dim, identityVec>>
       /\ ret'.fn \in {"increase_dimension", "decrease_dimension"} =>
              /\ gs_dim' = gs_dim
              /\ ret'.out.ok => /\ ret'.out.val.dim = ret'.arg[1]
                                /\ ret'.out.val.dim # gs_dim]_vars

\* an identity vector of length 1 was refused by a model of dimension 2 that
\* holds a gate and an identity vector
C15_Witness ==
    /\ ret.fn = "__setitem__"
    /\ ret.arg[1] = identity_label
    /\ ret.arg[2].d = 1
    /\ ret.out = Raise("ValueError")
    /\ gs_dim = 2
    /\ identityVec.shape # "None"
    /\ Len(gates) > 0

\* the identity vector v is absent or static
AbsentOrStatic(v) == v.shape # "None" => v.typ = "static"

\* C16: the identity vector of the model, and of every model copy,
\* increase_dimension or decrease_dimension returns, is absent or static, and
\* num_params() counts the parameters of the preps, effects and gates only.
C16_IdentityStatic ==
    /\ AbsentOrStatic(identityVec)
    /\ (ret.fn \in DerivingCalls /\ ret.out.ok) => AbsentOrStatic(ret.out.val.identityVec)
    /\ ret.fn = "num_params" =>
           ret.out.val = SumInts([k \in 1..Len(ChainedItems) |->
                                     OpNumParams(ChainedItems[k].obj)])

\* increase_dimension returned a model with an identity vector, called on a
\* model that holds a prep and an identity vector
C16_Witness ==
    /\ ret.fn = "increase_dimension"
    /\ ret.out.ok
    /\ ret.out.val.identityVec.shape # "None"
    /\ identityVec.shape # "None"
    /\ Len(preps) > 0

-----------------------------------------------------------------------------
(* Properties of the numerical checks *)

\* the conversion from the standard basis left an imaginary part above the
\* tolerance
ImagCheckFails ==
    /\ call.fn \in FromStdCalls
    /\ Supported(call)
    /\ ExceedsImagTol(ImagNormSq(Converted(call)))

\* the ranks handed to the rank check disagree
RankCheckFails ==
    /\ call.fn = "rank_check"
    /\ \/ call.arg[1] # call.arg[2]
       \/ call.arg[4] - call.arg[1] # call.arg[3]

\* C18: a failed numerical check is a failure, not a warning: a basis
\* conversion whose imaginary part exceeds the tolerance raises ValueError,
\* get_nongauge_projector raises AssertionError when the rank of P differs
\* from the rank of the normalized projector or numParams - rank(P) from the
\* rank of the projector returned, and neither returns a result.
C18_ToleranceFailures ==
    /\ ImagCheckFails => call.out = Raise("ValueError")
    /\ RankCheckFails => call.out = Raise("AssertionError")
    /\ (call.fn = "rank_check" /\ ~RankCheckFails) => call.out.ok

\* the rank check was handed a normalized projector of rank 1 for a P of rank 2
C18_Witness ==
    /\ call.fn = "rank_check"
    /\ call.arg = <<2, 1, 1, 3>>
    /\ call.out = Raise("AssertionError")

\* C18 as stated: a failed numerical check still returns a result
C18_AsStated ==
    /\ ImagCheckFails => call.out.ok
    /\ RankCheckFails => call.out.ok

-----------------------------------------------------------------------------
(* Properties of the calculator *)

\* the gate string names gates of the model only
KnownString(gatestring) == \A k \in 1..Len(gatestring) : gatestring[k] \in keys(gates)

\* G_ln ... G_l2 G_l1 for the gate string (l1, ..., ln): the product of the
\* later gates times the matrix of the first, and the identity for ()
RECURSIVE ProductOf(_)
ProductOf(gatestring) ==
    IF gatestring = <<>> THEN IdentityMx(gs_dim)
    ELSE Dot(ProductOf(Tail(gatestring)), GateMx(Lookup(gates, Head(gatestring))))

\* C19: product((l1, ..., ln)) is the matrix product G_ln ... G_l2 G_l1, the
\* dim x dim identity for the empty string, and with scaling asked for it
\* returns (P, s) with s * P equal to that product.
C19_ProductOrder ==
    (ret.fn = "product" /\ KnownString(ret.arg[1])) =>
        /\ ret.out.ok
        /\ ret.out.val.scaled = ret.arg[2]
        /\ Scale(ret.out.val.product, ret.out.val.scale) = ProductOf(ret.arg[1])
        /\ ~ret.arg[2] => ret.out.val.product = ProductOf(ret.arg[1])
        /\ ret.arg[1] = <<>> => ret.out.val.product = IdentityMx(gs_dim)

\* the scaled product of (G0, G1, G1) in dimension 2, with a scale above 1
C19_Witness ==
    /\ ret.fn = "product"
    /\ ret.arg = <<<<Label(gate_prefix, 0), Label(gate_prefix, 1), Label(gate_prefix, 1)>>, TRUE>>
    /\ gs_dim = 2
    /\ ret.out.ok
    /\ NumLess(One, ret.out.val.scale)
    /\ ProductOf(ret.arg[1])
           # ProductOf(<<Label(gate_prefix, 1), Label(gate_prefix, 1), Label(gate_prefix, 0)>>)

\* every string of the list names gates of the model only
KnownStrings(gatestring_list) ==
    \A i \in 1..Len(gatestring_list) : KnownString(gatestring_list[i])

\* the leaves the tree starts with are the empty string and then the gate
\* labels of the model
AlphabetLeaves(nodes) ==
    /\ Len(nodes) > Len(gates)
    /\ nodes[1] = Node(<<>>, 0, 0)
    /\ \A k \in 1..Len(gates) : nodes[k + 1] = Node(<<gates[k].label>>, 0, 0)

\* C20: the tree bulk_evaltree builds starts from the empty string and the
\* gate labels of the model, and for every string of its list and every SPAM
\* label bulk_pr and bulk_dpr over the tree return the probability and the
\* derivative that pr and dpr return for the string alone, however the tree
\* factors the strings.
C20_BulkMatchesSingle ==
    /\ ret.fn = "bulk_evaltree" =>
           /\ KnownStrings(ret.arg) => ret.out.ok
           /\ ret.out.ok => /\ AlphabetLeaves(ret.out.val.nodes)
                            /\ ret.out.val.gatestring_list = ret.arg
    /\ ret.fn = "bulk_pr" =>
           /\ ret.out.ok
           /\ Len(ret.out.val) = Len(ret.arg[2].gatestring_list)
           /\ \A i \in 1..Len(ret.arg[2].gatestring_list) :
                  Return(ret.out.val[i])
                      = pr(preps, effects, gates, identityVec, gs_dim, ret.arg[1],
                           ret.arg[2].gatestring_list[i])
    /\ ret.fn = "bulk_dpr" =>
           /\ ret.out.ok
           /\ Len(ret.out.val) = Len(ret.arg[2].gatestring_list)
           /\ \A i \in 1..Len(ret.arg[2].gatestring_list) :
                  Return(ret.out.val[i])
                      = dpr(preps, effects, gates, identityVec, gs_dim, ret.arg[1],
                            ret.arg[2].gatestring_list[i])

\* the derivatives of the remainder probability of (G0, G1, G1) and of the
\* empty string in a fully parameterized model of dimension 2, over a tree
\* that joins a joined node with a leaf
C20_Witness ==
    /\ ret.fn = "bulk_dpr"
    /\ gs_dim = 2
    /\ defaultParam = "full"
    /\ ret.arg[1].effect = RemainderLabel
    /\ ret.arg[2].gatestring_list
           = <<<<Label(gate_prefix, 0), Label(gate_prefix, 1), Label(gate_prefix, 1)>>, <<>>>>
    /\ \E k \in 1..Len(ret.arg[2].nodes) :
           /\ ret.arg[2].nodes[k].left # 0
           /\ ret.arg[2].nodes[ret.arg[2].nodes[k].left].left # 0
    /\ \E p \in 1..Len(ret.out.val[1]) : ~IsZero(ret.out.val[1][p])
    /\ ret.out.val[1] # ret.out.val[2]

-----------------------------------------------------------------------------
(* Properties of copy *)

\* C21: copy() returns, for every model, with or without an identity vector,
\* a model with the same preps, effects, gates, identity vector (or none),
\* dimension and basis, and leaves the model it is called on as it was.
C21_CopyOfEveryModel ==
    ret.fn = "copy" =>
        /\ ret.out.ok
        /\ ret.out.val.preps = preps
        /\ ret.out.val.effects = effects
        /\ ret.out.val.gates = gates
        /\ ret.out.val.identityVec = identityVec
        /\ ret.out.val.dim = gs_dim
        /\ ret.out.val.basis = basis

-----------------------------------------------------------------------------
(* Properties of the basis metadata *)

\* everything a model holds but its basis metadata
NonBasisVars == <<gs_dim, preps, effects, gates, identityVec, defaultParam>>

\* C22: a from_vector(v) that succeeds leaves the basis name "unknown" and
\* the basis dimension None, also when v is the current to_vector();
\* to_vector, get_vector_offsets, num_params and transform leave the basis
\* metadata alone; set_basis and reset_basis change the basis metadata only.
C22_BasisMetadata ==
    [][/\ (ret'.fn = "from_vector" /\ ret'.out.ok) => basis' = UnknownBasis
       /\ ret'.fn \in {"to_vector", "get_vector_offsets", "num_params", "transform"} =>
              basis' = basis
       /\ ret'.fn = "set_basis" =>
              /\ basis' = [name |-> ret'.arg[1], dim |-> ret'.arg[2]]
              /\ UNCHANGED NonBasisVars
       /\ ret'.fn = "reset_basis" =>
              /\ basis' = UnknownBasis
              /\ UNCHANGED NonBasisVars]_vars

\* from_vector was handed the vector to_vector() gives, with parameters in
\* it, and the basis is unknown
C22_Witness ==
    /\ ret.fn = "from_vector"
    /\ ret.out.ok
    /\ ret.arg = to_vector(preps, effects, gates)
    /\ Len(ret.arg) > 0
    /\ basis = UnknownBasis

-----------------------------------------------------------------------------
(* Properties of the scratch model of get_nongauge_projector *)

\* the labels of a dictionary in their order
LabelsOf(dict) == [k \in 1..Len(dict) |-> dict[k].label]

\* the scratch model has the labels of the model, in their order, holds
\* fully parameterized operators only, and has as many parameters as the
\* model has elements
ScratchMatchesModel(gsDeriv) ==
    /\ LabelsOf(gsDeriv.preps) = LabelsOf(preps)
    /\ LabelsOf(gsDeriv.effects) = LabelsOf(effects)
    /\ LabelsOf(gsDeriv.gates) = LabelsOf(gates)
    /\ \A k \in 1..Len(ChainedItems) :
           (gsDeriv.preps \o gsDeriv.effects \o gsDeriv.gates)[k].obj.typ = "full"
    /\ ScratchIsFull(gsDeriv, num_elements(preps, effects, gates))

\* column i*dim+j of dG is the change of every element of the model under
\* the generator (i, j), in the order preps, effects, gates
ColumnsByGenerator(dG) ==
    \A i, j \in 0..(gs_dim - 1) :
        dG[i * gs_dim + j]
            = Concat([k \in 1..Len(preps) |-> GaugeDerivOf("prep", preps[k].obj, i, j)])
              \o Concat([k \in 1..Len(effects) |-> GaugeDerivOf("effect", effects[k].obj, i, j)])
              \o Concat([k \in 1..Len(gates) |-> GaugeDerivOf("gate", gates[k].obj, i, j)])

\* the state after a call of get_nongauge_projector on a model with a dimension
ProjectorCalled == ret.fn = "get_nongauge_projector" /\ gs_dim > 0

\* C23: get_nongauge_projector() works on a scratch model that is fully
\* parameterized, has the prep, effect and gate labels of the model and as
\* many parameters and elements as the model has elements; dG has one column
\* of numElements entries per generator (i, j), at index i*dim+j; and the
\* call leaves the operators, parameterizations, dimension and basis of the
\* model as they were.
C23_ScratchModel ==
    [][ret'.fn = "get_nongauge_projector" =>
           /\ UNCHANGED <<gs_dim, basis, preps, effects, gates, identityVec, defaultParam>>
           /\ gs_dim > 0 =>
                  /\ ScratchMatchesModel(gsDerivZeros(preps, effects, gates, gs_dim))
                  /\ \A i, j \in 0..(gs_dim - 1) :
                         ScratchMatchesModel(gsDerivOf(preps, effects, gates, gs_dim, i, j))
                  /\ DOMAIN DGColumns(preps, effects, gates, gs_dim) = 0..(gs_dim * gs_dim - 1)
                  /\ \A c \in 0..(gs_dim * gs_dim - 1) :
                         Len(DGColumns(preps, effects, gates, gs_dim)[c])
                             = num_elements(preps, effects, gates)
                  /\ ColumnsByGenerator(DGColumns(preps, effects, gates, gs_dim))]_vars

\* the projector of a model of dimension 2 with a prep, an effect and a gate,
\* two of them not fully parameterized
C23_Witness ==
    /\ ProjectorCalled
    /\ ret.out.ok
    /\ gs_dim = 2
    /\ Len(preps) > 0 /\ Len(effects) > 0 /\ Len(gates) > 0
    /\ defaultParam = "TP"

-----------------------------------------------------------------------------
(* Properties of increase_dimension and decrease_dimension *)

\* vector new holds the first n elements of vector old, and zeros beyond old
ResizedVecOf(old, new, n) ==
    /\ Len(new) = n
    /\ \A k \in 1..n : new[k] = (IF k <= Len(old) THEN old[k] ELSE 0)

\* the n x n matrix new holds the d x d matrix old in its top-left block,
\* cut to n x n, 1 on the diagonal outside the block and 0 elsewhere
ResizedGateOf(old, new, d, n) ==
    /\ Len(new) = n * n
    /\ \A r \in 0..(n - 1) : \A c \in 0..(n - 1) :
           new[r * n + c + 1] = (IF r < d /\ c < d THEN old[r * d + c + 1]
                                 ELSE IF r = c THEN 1 ELSE 0)

\* dictionary new has the labels of dictionary old in the same order, every
\* operator fully parameterized, of dimension n and resized from the old one
ResizedDictOf(old, new, n) ==
    /\ Len(new) = Len(old)
    /\ \A k \in 1..Len(old) :
           /\ new[k].label = old[k].label
           /\ new[k].obj.typ = "full"
           /\ new[k].obj.shape = old[k].obj.shape
           /\ new[k].obj.d = n
           /\ IF old[k].obj.shape = "gate"
              THEN ResizedGateOf(old[k].obj.base, new[k].obj.base, old[k].obj.d, n)
              ELSE ResizedVecOf(old[k].obj.base, new[k].obj.base, n)

\* model new is the model of this state resized to dimension n
ResizedModel(new, n) ==
    /\ new.dim = n
    /\ new.basis = UnknownBasis
    /\ ResizedDictOf(preps, new.preps, n)
    /\ ResizedDictOf(effects, new.effects, n)
    /\ ResizedDictOf(gates, new.gates, n)
    /\ (identityVec.shape = "None") = (new.identityVec.shape = "None")
    /\ identityVec.shape # "None" =>
           /\ new.identityVec.d = n
           /\ ResizedVecOf(identityVec.base, new.identityVec.base, n)

\* the raw values of the operators of a dictionary, in order
RawValues(dict) == [k \in 1..Len(dict) |-> <<dict[k].label, dict[k].obj.base>>]

\* decrease_dimension(dim) of the enlarged model new gives back the raw
\* values of the model of this state
ShrinksBack(new) ==
    LET back == decrease_dimension(new.preps, new.effects, new.gates, new.dim,
                                   new.identityVec, gs_dim)
    IN  /\ back.ok
        /\ back.val.dim = gs_dim
        /\ RawValues(back.val.preps) = RawValues(preps)
        /\ RawValues(back.val.effects) = RawValues(effects)
        /\ RawValues(back.val.gates) = RawValues(gates)
        /\ identityVec.shape # "None" =>
               back.val.identityVec.base = identityVec.base

\* C24: on a model that has a dimension, increase_dimension(n) succeeds only
\* for n > dim and decrease_dimension(m) only for m < dim; the model
\* returned has dimension n (m), the same labels in the same order, unknown
\* basis metadata, every prep, effect and gate fully parameterized, vectors
\* padded with zeros (cut to their first m entries), gates holding the
\* original in the top-left block with 1 on the added diagonal (cut to the
\* top-left m x m block); the model called is left unchanged, and
\* decrease_dimension(dim) of the enlarged model has the original raw values.
C24_ChangeOfDimension ==
    [][(ret'.fn \in {"increase_dimension", "decrease_dimension"} /\ gs_dim # 0) =>
           /\ UNCHANGED <<gs_dim, basis, preps, effects, gates, identityVec, defaultParam>>
           /\ ret'.out.ok = (IF ret'.fn = "increase_dimension"
                             THEN ret'.arg[1] > gs_dim ELSE ret'.arg[1] < gs_dim)
           /\ ret'.out.ok => ResizedModel(ret'.out.val, ret'.arg[1])
           /\ (ret'.out.ok /\ ret'.fn = "increase_dimension") =>
                  ShrinksBack(ret'.out.val)]_vars

\* a model of dimension 1 with a prep, an effect, a gate and an identity
\* vector was enlarged to dimension 2
C24_Witness ==
    /\ ret.fn = "increase_dimension"
    /\ ret.out.ok
    /\ gs_dim = 1
    /\ ret.out.val.dim = 2
    /\ Len(preps) > 0 /\ Len(effects) > 0 /\ Len(gates) > 0
    /\ identityVec.shape # "None"
    /\ ret.out.val.gates[1].obj.base = <<1, 0, 0, 1>>

-----------------------------------------------------------------------------
(* Properties of set_all_parameterizations *)

\* the labels of a dictionary in its order
LabelOrder(dict) == [k \in 1..Len(dict) |-> dict[k].label]

\* every operator of the dictionary has parameterization typ
AllOfType(dict, typ) == \A k \in 1..Len(dict) : dict[k].obj.typ = typ

\* C25: set_all_parameterizations(t) succeeds exactly for t in "full", "TP",
\* "static" and fails changing nothing otherwise; after a success every gate
\* and every prep has parameterization t, every effect has t, or "full" when
\* t is "TP"; the labels and their order, the raw values and the identity
\* vector are unchanged; after "static" num_params() is 0.
C25_SetAllParameterizations ==
    [][ret'.fn = "set_all_parameterizations" =>
           /\ ret'.out.ok = (ret'.arg[1] \in {"full", "TP", "static"})
           /\ ~ret'.out.ok => UNCHANGED <<preps, effects, gates>>
           /\ ret'.out.ok =>
                  /\ AllOfType(gates', ret'.arg[1])
                  /\ AllOfType(preps', ret'.arg[1])
                  /\ AllOfType(effects', IF ret'.arg[1] = "TP" THEN "full" ELSE ret'.arg[1])
                  /\ ret'.arg[1] = "static" => num_params(preps', effects', gates') = 0
           /\ LabelOrder(preps') = LabelOrder(preps)
           /\ LabelOrder(effects') = LabelOrder(effects)
           /\ LabelOrder(gates') = LabelOrder(gates)
           /\ RawValues(preps') = RawValues(preps)
           /\ RawValues(effects') = RawValues(effects)
           /\ RawValues(gates') = RawValues(gates)
           /\ UNCHANGED <<identityVec, gs_dim, defaultParam>>]_vars

\* a model with a prep, an effect, a gate and an identity vector was
\* converted to "TP": the effect is "full"
C25_Witness ==
    /\ ret.fn = "set_all_parameterizations"
    /\ ret.arg = <<"TP">>
    /\ ret.out.ok
    /\ Len(preps) > 0 /\ Len(effects) > 0 /\ Len(gates) > 0
    /\ identityVec.shape # "None"
    /\ preps[1].obj.typ = "TP"
    /\ effects[1].obj.typ = "full"
    /\ gates[1].obj.typ = "TP"

-----------------------------------------------------------------------------
(* Properties of indexing by label *)

\* the rules of the routing in their order, for a GateSet constructed with
\* the prefixes px: does the rule match the text of the label?
RuleMatches(text, px) ==
    <<startswith(text, px.prep),
      startswith(text, px.effect) \/ text = px.remainder,
      startswith(text, px.gate),
      text = px.identity>>
RuleStores == <<"preps", "effects", "gates", "povm_identity">>

\* the store of the first rule that matches, "KeyError" when none does
FirstMatch(text, px) ==
    LET hits == {k \in 1..4 : RuleMatches(text, px)[k]}
    IN  IF hits = {} THEN "KeyError"
        ELSE RuleStores[CHOOSE k \in hits : \A other \in hits : k <= other]

\* constructor arguments under which a label matches more than one rule
PrefixChoices ==
    {DefaultPrefixes,
     Prefixes(<<"r">>, <<"E">>, <<"G">>, Text("remainder"), Text("identity")),
     Prefixes(Text("rho"), <<"G">>, <<"G">>, Text("remainder"), Text("identity")),
     Prefixes(Text("rho"), <<"E">>, <<"i">>, Text("remainder"), Text("identity")),
     Prefixes(<<"G">>, <<"r", "e">>, <<"G", "0">>, Text("remainder"), Text("identity")),
     Prefixes(Text("rho"), <<>>, <<"G">>, Text("remainder"), Text("identity"))}
LabelTexts == {LabelText(label) : label \in Labels \cup IndexLabels \cup {remainder_label}}

\* the step is a call of __setitem__ or __getitem__ and these are its
\* label, the class's strict flag, and the store the label belongs to
IndexingStep == ret'.fn \in {"__setitem__", "__getitem__"}
IndexedLabel == ret'.arg[1]
StrictFlag == ret'.arg[Len(ret'.arg)]
StoreOfLabel == FirstMatch(LabelText(IndexedLabel), DefaultPrefixes)

\* a write to the dictionary old appended the value under the label, or
\* failed and left it alone
WroteInto(old, new) ==
    IF ret'.out.ok
    THEN /\ Len(new) = Len(old) + 1
         /\ SubSeq(new, 1, Len(old)) = old
         /\ new[Len(new)].label = IndexedLabel
         /\ new[Len(new)].obj.base = ret'.arg[2].base
    ELSE new = old

\* a read of the dictionary dict returned the operator stored under the
\* label, or failed with KeyError when there is none
ReadFrom(dict) ==
    IF IndexedLabel \in keys(dict)
    THEN /\ ret'.out.ok
         /\ \E k \in 1..Len(dict) :
                dict[k].label = IndexedLabel /\ dict[k].obj = ret'.out.val
    ELSE ret'.out = Raise("KeyError")

\* C26: with the class's strict flag set, reading and writing by label raise
\* KeyError for every label and change nothing.  Otherwise the label goes to
\* the store of the first rule that matches, in the order prep prefix ->
\* preps, effect prefix or remainder label -> effects, gate prefix -> gates,
\* identity label -> identity vector: a write changes that store only, a
\* read returns what that store holds and changes nothing; a label matching
\* no rule raises KeyError and changes nothing.  The if / elif chain gives
\* the store of the first matching rule also for prefixes under which a
\* label matches several rules.
C26_LabelRouting ==
    [][IndexingStep =>
        /\ \A px \in PrefixChoices : \A text \in LabelTexts :
               Route(text, px) = FirstMatch(text, px)
        /\ ret'.fn = "__getitem__" =>
               UNCHANGED <<gs_dim, basis, preps, effects, gates, identityVec, defaultParam>>
        /\ StrictFlag =>
               /\ ret'.out = Raise("KeyError")
               /\ UNCHANGED <<gs_dim, basis, preps, effects, gates, identityVec, defaultParam>>
        /\ (~StrictFlag /\ StoreOfLabel = "KeyError") =>
               /\ ret'.out = Raise("KeyError")
               /\ UNCHANGED <<gs_dim, basis, preps, effects, gates, identityVec, defaultParam>>
        /\ (~StrictFlag /\ ret'.fn = "__setitem__") =>
               /\ StoreOfLabel = "preps" =>
                      WroteInto(preps, preps') /\ UNCHANGED <<effects, gates, identityVec>>
               /\ StoreOfLabel = "effects" =>
                      WroteInto(effects, effects') /\ UNCHANGED <<preps, gates, identityVec>>
               /\ StoreOfLabel = "gates" =>
                      WroteInto(gates, gates') /\ UNCHANGED <<preps, effects, identityVec>>
               /\ StoreOfLabel = "povm_identity" =>
                      /\ UNCHANGED <<preps, effects, gates>>
                      /\ IF ret'.out.ok
                         THEN identityVec'.shape = ret'.arg[2].shape
                              /\ identityVec'.base = ret'.arg[2].base
                         ELSE identityVec' = identityVec
        /\ (~StrictFlag /\ ret'.fn = "__getitem__") =>
               /\ StoreOfLabel = "preps" => ReadFrom(preps)
               /\ (StoreOfLabel = "effects" /\ IndexedLabel # remainder_label) =>
                      ReadFrom(effects)
               /\ (IndexedLabel = remainder_label /\ identityVec.shape # "None") =>
                      /\ StoreOfLabel = "effects"
                      /\ ret'.out.ok
                      /\ \A k \in 1..gs_dim :
                             ret'.out.val.base[k] + SumOver(effects, k) = identityVec.base[k]
               /\ StoreOfLabel = "gates" => ReadFrom(gates)
               /\ StoreOfLabel = "povm_identity" => ret'.out = Return(identityVec)]_vars

\* the remainder label was read from a model holding an effect and an
\* identity vector, with the strict flag not set
C26_Witness ==
    /\ ret.fn = "__getitem__"
    /\ ret.arg = <<remainder_label, FALSE>>
    /\ ret.out.ok
    /\ Len(effects) > 0
    /\ Len(gates) > 0
    /\ identityVec.shape # "None"

-----------------------------------------------------------------------------
(* Properties of the index map of expand and contract *)

\* the index map both functions build for the structure of the call
IndxMapOf(s) == IndxMapLoop(BlockDimsOf(s), 0, DmDimOf(s))

\* the flattened positions dmDim*i + j of the entries of M that are 1
OnePositions(M) ==
    {M.c * i + j : i \in 0..(M.r - 1), j \in 0..(M.c - 1)} \cap
    {x \in 0..(M.r * M.c - 1) : M.a[x \div M.c][x % M.c] = One}

\* C27: for a list-of-blocks structure, contractToStdDirectSumMx applied to
\* what expandFromStdDirectSumMx returned for a spaceDim x spaceDim matrix M
\* returns M; the index map of both has spaceDim entries, all from 0 to
\* dmDim^2 - 1, is strictly increasing (hence injective), and its k-th entry
\* is the flattened position of the single 1 of the k-th matrix that
\* GetMatrixUnitMatrices returns for the structure.
C27_ExpandContract ==
    (call.kind = "directsum" /\ call.dims.kind = "list"
        /\ call.fn \in {"expandFromStdDirectSumMx", "contractOfExpanded"}) =>
        /\ (call.fn = "contractOfExpanded"
                /\ HasShape(call.orig, GateDimOf(call.dims), GateDimOf(call.dims))) =>
               call.out = Return(call.orig)
        /\ HasShape(call.orig, GateDimOf(call.dims), GateDimOf(call.dims)) =>
               call.out.ok
        /\ Len(IndxMapOf(call.dims)) = GateDimOf(call.dims)
        /\ \A k \in 1..Len(IndxMapOf(call.dims)) :
               /\ IndxMapOf(call.dims)[k] >= 0
               /\ IndxMapOf(call.dims)[k] < DmDimOf(call.dims) * DmDimOf(call.dims)
               /\ k > 1 => IndxMapOf(call.dims)[k - 1] < IndxMapOf(call.dims)[k]
               /\ OnePositions(GetMatrixUnitMatrices(call.dims).val[k])
                      = {IndxMapOf(call.dims)[k]}

\* a matrix for two blocks, of sizes 1 and 2, was expanded and contracted
\* again
C27_Witness ==
    /\ call.fn = "contractOfExpanded"
    /\ call.dims = ListDims(<<1, 2>>)
    /\ HasShape(call.orig, 5, 5)
    /\ HasShape(call.arg, 9, 9)
    /\ call.out.ok
    /\ HasShape(call.out.val, 5, 5)

-----------------------------------------------------------------------------
(* Properties of the calculator under changes of the model *)

\* the calls answered by a calculator
CalculatorCalls == {"product", "pr", "dpr", "bulk_evaltree", "bulk_pr", "bulk_dpr"}

\* the dimension a model gets that is built anew from the operators held now:
\* that of the first operator assigned
FreshDim ==
    IF preps # <<>> THEN preps[1].obj.d
    ELSE IF effects # <<>> THEN effects[1].obj.d
    ELSE IF gates # <<>> THEN gates[1].obj.d
    ELSE identityVec.d

\* what a calculator made for a model built anew from the operators held now
\* answers to the call fn with arguments arg
FreshAnswers(fn, arg) ==
    CASE fn = "product" -> {calc_product(gates, FreshDim, arg[1], arg[2])}
      [] fn = "pr" -> {calc_pr(preps, effects, gates, identityVec, FreshDim, arg[1], arg[2])}
      [] fn = "dpr" -> {calc_dpr(preps, effects, gates, identityVec, FreshDim, arg[1], arg[2])}
      [] fn = "bulk_evaltree" ->
             {EvalTreeInitialize(<< <<>> >> \o [k \in 1..Len(gates) |-> <<gates[k].label>>],
                                 arg, factoring) : factoring \in Factorings}
      [] fn = "bulk_pr" ->
             {Return(calc_bulk_pr(preps, effects, gates, identityVec, FreshDim,
                                  arg[1], arg[2]))}
      [] fn = "bulk_dpr" ->
             {Return(calc_bulk_dpr(preps, effects, gates, identityVec, FreshDim,
                                   arg[1], arg[2]))}

\* C28: whatever from_vector, transform, assignments and
\* set_all_parameterizations did to the model before, a product, pr, dpr or
\* bulk call answers what a calculator answers that is made for a model
\* built anew from the operators the model holds at the call, and leaves
\* the model as it is.
C28_NoCalculatorState ==
    [][ret'.fn \in CalculatorCalls =>
           /\ UNCHANGED <<gs_dim, basis, preps, effects, gates, identityVec, defaultParam>>
           /\ ret'.out \in FreshAnswers(ret'.fn, ret'.arg)]_vars

\* a probability was asked of a model of dimension 2 whose gates were set by
\* from_vector, whose vectors were transformed and whose operators were made
\* static after that
C28_Witness ==
    /\ ret.fn = "pr"
    /\ ret.out.ok
    /\ Len(ret.arg[2]) = 3
    /\ gs_dim = 2
    /\ defaultParam = "full"
    /\ Len(gates) = 2
    /\ gates[1].obj.typ = "static"
    /\ gates[1].obj.base = <<3, 1, 2, 3>>
    /\ preps[1].obj.base[1] < 0
    /\ ~IsZero(ret.out.val)

-----------------------------------------------------------------------------
(* Properties of do_long_sequence_gst *)

\* the function has returned its Results
DriverReturned ==
    call.fn = "do_long_sequence_gst" /\ call.pc = "done" /\ call.out.ok

\* C29: when do_long_sequence_gst returns, with gaugeOptToCPTP or without,
\* the list handed to the Results object last, gs_lsgst_list, holds the
\* models the iterative fit returned, none of them replaced by a model gauge
\* optimized to the target, and there are as many maximum lengths as gate
\* string lists as models in go_gs_lsgst_list.
C29_EstimatesKept ==
    DriverReturned =>
        /\ call.results.gs_lsgst_list
               = [k \in 1..call.lsgstLists |-> IterativeEstimate(call.objective, k)]
        /\ call.maxLengths = call.lsgstLists
        /\ call.lsgstLists = Len(call.results.go_gs_lsgst_list)


-----------------------------------------------------------------------------
(* Properties of ReportTable *)

RaisesError(result, e) == ~result.ok /\ result.err = e

\* every row of the table is the rowData of one addrow call, in call order
RowsAreTheAddedRows ==
    [k \in 1..Len(call.rows) |-> call.rows[k][1]] = call.addrowCalls

LenCountsAddrow ==
    /\ ReportTable_len(call) = Len(call.addrowCalls)
    /\ num_rows(call) = Len(call.addrowCalls)

\* the first elements of the non-empty rowData added, in the order of the calls
KeysInInsertionOrder ==
    With(SelectSeq(call.addrowCalls, LAMBDA rowData : Len(rowData) > 0), LAMBDA added :
        ReportTable_keys(call) = [k \in 1..Len(added) |-> added[k][1]])

\* the first addrow call whose rowData starts with key, 0 when there is none
FirstAdded(key) ==
    With({k \in 1..Len(call.addrowCalls) :
             Len(call.addrowCalls[k]) > 0 /\ call.addrowCalls[k][1] = key}, LAMBDA found :
        IF found = {} THEN 0 ELSE CHOOSE k \in found : \A j \in found : k <= j)

MembershipAgrees(key) ==
    /\ ReportTable_contains(call, key) = has_key(call, key)
    /\ has_key(call, key) = ReportTable_getitem(call, key).ok
    /\ has_key(call, key) = (FirstAdded(key) # 0)

RowByKeyAgrees(key) ==
    ReportTable_row(call, key, PyNone).ok = has_key(call, key)

GetItemFirstRow(key) ==
    FirstAdded(key) # 0 =>
        ReportTable_getitem(call, key)
            = Return(ZipDict(call.columnNames, call.addrowCalls[FirstAdded(key)]))

RowFirstRow(key) ==
    FirstAdded(key) # 0 =>
        ReportTable_row(call, key, PyNone) = Return(call.addrowCalls[FirstAdded(key)])

\* row() and col() with both key and index, with neither, or with an index
\* outside [0, count)
RowColValueErrors ==
    /\ \A key \in PyValues \ {PyNone}, index \in PyIndexes \ {PyNone} :
          /\ RaisesError(ReportTable_row(call, key, index), "ValueError")
          /\ RaisesError(ReportTable_col(call, key, index), "ValueError")
    /\ RaisesError(ReportTable_row(call, PyNone, PyNone), "ValueError")
    /\ RaisesError(ReportTable_col(call, PyNone, PyNone), "ValueError")
    /\ \A index \in PyIndexes \ {PyNone} :
          /\ ~(0 <= index.n /\ index.n < Len(call.addrowCalls))
                => RaisesError(ReportTable_row(call, PyNone, index), "ValueError")
          /\ ~(0 <= index.n /\ index.n < Len(call.columnNames))
                => RaisesError(ReportTable_col(call, PyNone, index), "ValueError")

\* render with a format that is none of latex, html, py, ppt
RenderUnknownFormat ==
    /\ \A fmt \in Formats \ {"latex", "html", "py", "ppt"} :
          RaisesError(render(call, fmt), "ValueError")
    /\ RowsAreTheAddedRows

=============================================================================
